---------------------------- MODULE Spec2Model ----------------------------
(***************************************************************************)
(* Battery voltage models of shared/lib_battery_voltage.cpp (voltage_t,    *)
(* voltage_table_t, voltage_dynamic_t, voltage_vanadium_redox_t).          *)
(*                                                                         *)
(* Numbers.  A C++ double is modelled by an extended rational <<n, d>>:    *)
(*   d > 0, gcd(n, d) = 1   the finite value n/d                           *)
(*   <<1, 0>>, <<-1, 0>>    +infinity, -infinity                           *)
(*   <<0, 0>>               NaN                                            *)
(* +, -, *, / follow IEEE-754 on the special values (x/0 = +-inf, 0/0 =   *)
(* NaN, every comparison with NaN is false, fmax/fmin return the non-NaN   *)
(* argument).  On finite values they are exact as long as the result has a *)
(* numerator and a denominator of at most MaxMant, and rounded to such a   *)
(* fraction otherwise: a double of about 15 bits.  sqrt, exp and log are   *)
(* computed to a fixed number of decimals, exact at squares, exp(0) = 1    *)
(* and log(1) = 0.                                                         *)
(***************************************************************************)
EXTENDS Integers, Sequences, FiniteSets, TLC

\* ------------------------------------------------------------------------
\* double arithmetic
\* ------------------------------------------------------------------------
NaN == <<0, 0>>

PInf == <<1, 0>>

NInf == <<-1, 0>>

RECURSIVE GCD(_, _)
GCD(a, b) == IF b = 0 THEN a ELSE GCD(b, a % b)

AbsInt(a) == IF a < 0 THEN -a ELSE a

SignInt(a) == IF a < 0 THEN -1 ELSE IF a > 0 THEN 1 ELSE 0

\* Largest numerator and denominator a finite double of the model keeps:
\* 2 * MaxMant * MaxMant fits the 32-bit integers of the model checker.
MaxMant == 30000

\* The last convergent h/k of the continued fraction of n/d (n >= 0, d > 0)
\* with h and k of at most MaxMant; <<h1, k1>> and <<h0, k0>> are the two
\* convergents before.  No product above MaxMant is formed.
RECURSIVE Convergent(_, _, _, _, _, _)
Convergent(n, d, h1, k1, h0, k0) ==
    LET a == n \div d
    IN  IF (h1 > 0 /\ a > (MaxMant - h0) \div h1) \/ (k1 > 0 /\ a > (MaxMant - k0) \div k1)
        THEN <<h1, k1>>
        ELSE IF n % d = 0 THEN <<a * h1 + h0, a * k1 + k0>>
        ELSE Convergent(d, n % d, a * h1 + h0, a * k1 + k0, h1, k1)

\* n/d (d > 0, in lowest terms) rounded to a fraction with numerator and
\* denominator of at most MaxMant, the best such approximation from its
\* continued fraction.  A magnitude above MaxMant overflows to infinity, one
\* below 1/MaxMant underflows to 0.
Round(n, d) ==
    IF AbsInt(n) <= MaxMant /\ d <= MaxMant THEN <<n, d>>
    ELSE LET c == Convergent(AbsInt(n), d, 1, 0, 0, 1)
         IN  <<SignInt(n) * c[1], c[2]>>

\* the finite double n/d (d # 0), in lowest terms with a positive denominator
Q(n, d) ==
    LET g == GCD(AbsInt(n), AbsInt(d))
        s == IF d < 0 THEN -1 ELSE 1
    IN  Round((s * n) \div g, (s * d) \div g)

IsNaN(x) == x = NaN

IsInf(x) == x[2] = 0 /\ x[1] # 0

IsFinite(x) == x[2] # 0

Zero == <<0, 1>>

One == <<1, 1>>

Neg(x) == <<-x[1], x[2]>>

\* the products are taken after cancelling common factors, so that an
\* intermediate value leaves the integer range only if the result does
Add(x, y) ==
    IF IsNaN(x) \/ IsNaN(y) THEN NaN
    ELSE IF IsInf(x) THEN (IF IsInf(y) /\ y # x THEN NaN ELSE x)
    ELSE IF IsInf(y) THEN y
    ELSE LET g == GCD(x[2], y[2])
         IN  Q(x[1] * (y[2] \div g) + y[1] * (x[2] \div g), (x[2] \div g) * y[2])

Sub(x, y) == Add(x, Neg(y))

Mul(x, y) ==
    IF IsNaN(x) \/ IsNaN(y) THEN NaN
    ELSE IF IsInf(x) \/ IsInf(y)
         THEN (IF x[1] = 0 \/ y[1] = 0 THEN NaN
               ELSE <<SignInt(x[1]) * SignInt(y[1]), 0>>)
    ELSE LET g1 == GCD(AbsInt(x[1]), y[2])
             g2 == GCD(AbsInt(y[1]), x[2])
         IN  IF x[1] = 0 \/ y[1] = 0 THEN Zero
             ELSE Round((x[1] \div g1) * (y[1] \div g2),
                        (x[2] \div g2) * (y[2] \div g1))

Div(x, y) ==
    IF IsNaN(x) \/ IsNaN(y) THEN NaN
    ELSE IF IsInf(x) THEN (IF IsInf(y) THEN NaN
                           ELSE <<x[1] * (IF y[1] < 0 THEN -1 ELSE 1), 0>>)
    ELSE IF IsInf(y) THEN Zero
    ELSE IF y[1] = 0 THEN (IF x[1] = 0 THEN NaN ELSE <<SignInt(x[1]), 0>>)
    ELSE Mul(x, <<SignInt(y[1]) * y[2], AbsInt(y[1])>>)

\* the sign of a/b - c/d for a, c >= 0 and b, d > 0, by comparing the
\* continued fractions (no product is formed)
RECURSIVE CmpPos(_, _, _, _)
CmpPos(a, b, c, d) ==
    LET qa == a \div b
        qc == c \div d
        ra == a % b
        rc == c % d
    IN  IF qa # qc THEN (IF qa < qc THEN -1 ELSE 1)
        ELSE IF ra = 0 \/ rc = 0
             THEN (IF ra = rc THEN 0 ELSE IF ra = 0 THEN -1 ELSE 1)
        ELSE CmpPos(d, rc, b, ra)

\* x < y on doubles: false as soon as one side is NaN
Lt(x, y) ==
    IF IsNaN(x) \/ IsNaN(y) THEN FALSE
    ELSE IF IsInf(x) \/ IsInf(y)
         THEN (IF IsInf(x) /\ IsInf(y) THEN x[1] < y[1]
               ELSE IF IsInf(x) THEN x[1] < 0
               ELSE y[1] > 0)
    ELSE IF x[1] < 0 /\ y[1] >= 0 THEN TRUE
    ELSE IF x[1] >= 0 /\ y[1] < 0 THEN FALSE
    ELSE IF x[1] < 0 THEN CmpPos(-x[1], x[2], -y[1], y[2]) = 1
    ELSE CmpPos(x[1], x[2], y[1], y[2]) = -1

Gt(x, y) == Lt(y, x)

Le(x, y) == ~IsNaN(x) /\ ~IsNaN(y) /\ ~Lt(y, x)

Ge(x, y) == Le(y, x)

\* x == y on doubles (NaN differs from everything, itself included)
Eq(x, y) == ~IsNaN(x) /\ x = y

Fabs(x) == <<AbsInt(x[1]), x[2]>>

Fmax(x, y) == IF IsNaN(x) THEN y ELSE IF IsNaN(y) THEN x ELSE IF Lt(x, y) THEN y ELSE x

Fmin(x, y) == IF IsNaN(x) THEN y ELSE IF IsNaN(y) THEN x ELSE IF Lt(y, x) THEN y ELSE x

\* an int converted to double
I2D(n) == <<n, 1>>

\* F at the value v: a value computed once and used several times
With(v, F(_)) == F(v)

\* ------------------------------------------------------------------------
\* sqrt, exp, log to a fixed resolution
\* ------------------------------------------------------------------------
\* decimal digits kept by sqrt, by exp and by log
SqrtDigits == 3

ExpDigits == 4

LnDigits == 3

RECURSIVE Pow10(_)
Pow10(j) == IF j = 0 THEN 1 ELSE 10 * Pow10(j - 1)

\* floor(a * 10^j / b) for a >= 0, b > 0, by long division
RECURSIVE MulDivFloor(_, _, _)
MulDivFloor(a, b, j) ==
    IF j = 0 THEN a \div b
    ELSE (a \div b) * Pow10(j) + MulDivFloor((a % b) * 10, b, j - 1)

\* floor of the square root of v >= 0 (Newton's iteration on integers)
RECURSIVE ISqrtFrom(_, _)
ISqrtFrom(v, x) ==
    LET y == (x + v \div x) \div 2
    IN  IF y >= x THEN x ELSE ISqrtFrom(v, y)

ISqrt(v) == IF v < 2 THEN v ELSE ISqrtFrom(v, v \div 2)

\* the decimals of the square root of a number of integer part v: SqrtDigits,
\* fewer where v * 100^SqrtDigits leaves the 32 bits of the model's integers
RECURSIVE SqrtScale(_, _)
SqrtScale(v, j) ==
    IF j = 0 \/ v < 2000000000 \div Pow10(2 * j) THEN j ELSE SqrtScale(v, j - 1)

\* std::sqrt: exact when numerator and denominator are squares, otherwise
\* rounded down to SqrtScale decimals; NaN below zero
Sqrt(x) ==
    IF IsNaN(x) \/ x[1] < 0 THEN NaN
    ELSE IF IsInf(x) THEN PInf
    ELSE LET rn == ISqrt(x[1])
             rd == ISqrt(x[2])
         IN  IF rn * rn = x[1] /\ rd * rd = x[2] THEN <<rn, rd>>
             ELSE LET dg == SqrtScale(x[1] \div x[2], SqrtDigits)
                      v == MulDivFloor(x[1], x[2], 2 * dg)
                  IN  Q(ISqrt(v), Pow10(dg))

\* a * b \div c for b >= 0, c > 0, a digit of b and of c dropped where a * b
\* leaves the 32 bits of the model's integers
MulDivInt(a, b, c) ==
    IF b = 0 THEN 0
    ELSE IF AbsInt(a) <= 2147483647 \div b THEN (a * b) \div c
    ELSE (a * (b \div 10)) \div (c \div 10)

\* e^(-y/W) * W for the fixed-point y >= 0, W = 10^ExpDigits: Taylor's series
\* below 1/2, squaring above
RECURSIVE ExpTaylor(_, _, _, _)
ExpTaylor(y, W, k, term) ==
    IF term = 0 \/ k > 12 THEN 0
    ELSE term + ExpTaylor(y, W, k + 1, MulDivInt(0 - term, y, W * k))

RECURSIVE ExpNegFix(_, _)
ExpNegFix(y, W) ==
    IF 2 * y <= W THEN ExpTaylor(y, W, 1, W)
    ELSE LET h == ExpNegFix(y \div 2, W)
         IN  MulDivInt(h, h, W)

\* std::exp, to ExpDigits decimals; exp(0) = 1 exactly
Exp(x) ==
    IF IsNaN(x) THEN NaN
    ELSE IF IsInf(x) THEN (IF x[1] > 0 THEN PInf ELSE Zero)
    ELSE IF x[1] = 0 THEN One
    ELSE LET W == Pow10(ExpDigits)
             big == AbsInt(x[1]) \div x[2] >= 20
             e == IF big THEN 0
                  ELSE ExpNegFix(MulDivFloor(AbsInt(x[1]), x[2], ExpDigits), W)
         IN  IF x[1] < 0 THEN Q(e, W) ELSE Div(One, Q(e, W))

\* atanh(z/W) * W for the fixed-point 0 <= z < W/2
RECURSIVE AtanhSeries(_, _, _, _)
AtanhSeries(z2, W, k, pow) ==
    IF pow = 0 \/ k > 15 THEN 0
    ELSE pow \div k + AtanhSeries(z2, W, k + 2, (pow * z2) \div W)

RECURSIVE Log2Floor(_)
Log2Floor(k) == IF k < 2 THEN 0 ELSE 1 + Log2Floor(k \div 2)

RECURSIVE Pow2(_)
Pow2(m) == IF m = 0 THEN 1 ELSE 2 * Pow2(m - 1)

\* ln(k) * W for the integer k >= 1: ln k = m ln 2 + 2 atanh((k - 2^m)/(k + 2^m))
LnInt(k, W) ==
    LET m == Log2Floor(k)
        P == Pow2(m)
        z == MulDivFloor(k - P, k + P, LnDigits)
        third == W \div 3
        ln2 == 2 * AtanhSeries((third * third) \div W, W, 1, third)
    IN  m * ln2 + 2 * AtanhSeries((z * z) \div W, W, 1, z)

\* std::log, to LnDigits decimals; log(1) = 0 exactly, log(0) = -inf
Ln(x) ==
    IF IsNaN(x) \/ x[1] < 0 THEN NaN
    ELSE IF IsInf(x) THEN PInf
    ELSE IF x[1] = 0 THEN NInf
    ELSE LET W == Pow10(LnDigits)
         IN  Q(LnInt(x[1], W) - LnInt(x[2], W), W)

\* ------------------------------------------------------------------------
\* voltage_params, voltage_state, voltage_t
\* ------------------------------------------------------------------------
\* `tolerance` of the battery library (lib_battery_capacity.h): 0.002
tolerance == <<1, 500>>

Hundred == <<100, 1>>

\* the record make_shared<voltage_params>() value-initializes
ZeroDynamic ==
    [Vfull |-> Zero, Vexp |-> Zero, Vnom |-> Zero, Vcut |-> Zero,
     Qfull |-> Zero, Qexp |-> Zero, Qnom |-> Zero, C_rate |-> Zero]

\* voltage_t::voltage_t(mode, num_cells_series, num_strings, voltage, dt_hour):
\* the parameter block it fills
BaseParams(mode, num_cells_series, num_strings, voltage, dt_hour) ==
    [voltage_choice |-> mode,
     num_cells_series |-> num_cells_series,
     num_strings |-> num_strings,
     Vnom_default |-> voltage,
     resistance |-> <<1, 250>>,
     dt_hr |-> dt_hour,
     voltage_table |-> <<>>,
     dynamic |-> ZeroDynamic]

\* voltage_t::initialize(): the state every constructor starts from
BaseState(p) == [cell_voltage |-> p.Vnom_default, Q_full_mod |-> p.dynamic.Qfull]

\* ------------------------------------------------------------------------
\* voltage_table_t
\* ------------------------------------------------------------------------
\* the slope threshold of initialize(): 1e-7
SlopeEps == <<1, 10000000>>

\* std::sort(..., a[1] > b[1]): every order of the rows that is descending in
\* voltage (the order of rows of equal voltage is unspecified)
RECURSIVE Perms(_)
Perms(S) ==
    IF S = {} THEN {<<>>}
    ELSE UNION {{<<x>> \o t : t \in Perms(S \ {x})} : x \in S}

SortedTables(tbl) ==
    {[i \in 1..Len(tbl) |-> tbl[pm[i]]] : pm \in
        {q \in Perms(1..Len(tbl)) :
            \A i \in 1..(Len(tbl) - 1) : ~Gt(tbl[q[i + 1]][2], tbl[q[i]][2])}}

\* the line through (DOD0, V0) and (DOD, V) that initialize() keeps per row
SegmentSlope(DOD0, V0, DOD, V) == Div(Sub(V, V0), Sub(DOD, DOD0))

SegmentInterceptAtNewRow(DOD0, V0, DOD, slope) == Sub(V0, Mul(slope, DOD))

SegmentIntercept(DOD0, V0, DOD, slope) == Sub(V0, Mul(slope, DOD0))

\* what std::sort can leave when initialize() reaches it: the two size checks
\* throw before
SortOutcomes(tbl) ==
    IF Len(tbl) < 2 \/ Len(tbl[1]) # 2 THEN {tbl} ELSE SortedTables(tbl)

\* the loop of initialize() over the sorted rows, from row i on (1-based):
\* [err, slopes, intercepts, need_less_than_nom, need_greater_than_nom]
RECURSIVE TableLoop(_, _, _, _, _, _, _)
TableLoop(tbl, Vnom, i, slopes, intercepts, nl, ng) ==
    IF i > Len(tbl)
    THEN [err |-> "", slopes |-> slopes, intercepts |-> intercepts,
          need_less_than_nom |-> nl, need_greater_than_nom |-> ng]
    ELSE LET DOD == tbl[i][1]
             V == tbl[i][2]
             DOD0 == tbl[i - 1][1]
             V0 == tbl[i - 1][2]
             below == nl /\ Lt(V, Vnom)
         \* w: need_less_than_nom, need_greater_than_nom and slope after row i
         IN  With(<<IF below THEN FALSE ELSE nl,
                    IF below THEN ng ELSE IF ng /\ Gt(V, Vnom) THEN FALSE ELSE ng,
                    IF i > 1 THEN SegmentSlope(DOD0, V0, DOD, V) ELSE Zero>>,
                  LAMBDA w :
             IF i > 1 /\ Lt(Fabs(w[3]), SlopeEps)
             THEN [err |-> "identical voltages", slopes |-> slopes,
                   intercepts |-> intercepts,
                   need_less_than_nom |-> w[1], need_greater_than_nom |-> w[2]]
             ELSE TableLoop(tbl, Vnom, i + 1, Append(slopes, w[3]),
                            Append(intercepts,
                                   IF i > 1 THEN SegmentIntercept(DOD0, V0, DOD, w[3])
                                   ELSE V),
                            w[1], w[2]))

\* the checks of initialize() after its loop returned r, without the test of
\* need_greater_than_nom
TableCheckedUnbracketed(sorted, r) ==
    IF r.err # ""
    THEN [err |-> r.err, voltage_table |-> sorted,
          slopes |-> r.slopes, intercepts |-> r.intercepts]
    ELSE IF r.need_less_than_nom
    THEN [err |-> "no voltage less than nominal", voltage_table |-> sorted,
          slopes |-> r.slopes, intercepts |-> r.intercepts]
    ELSE [err |-> "", voltage_table |-> sorted,
          slopes |-> Append(r.slopes, r.slopes[Len(r.slopes)]),
          intercepts |-> Append(r.intercepts, r.intercepts[Len(r.slopes)])]

\* the end of initialize() after its loop returned r: the two tests of the
\* nominal voltage, and the segment appended for extrapolation
TableChecked(sorted, r) ==
    IF r.err # ""
    THEN [err |-> r.err, voltage_table |-> sorted,
          slopes |-> r.slopes, intercepts |-> r.intercepts]
    ELSE IF r.need_less_than_nom
    THEN [err |-> "no voltage less than nominal", voltage_table |-> sorted,
          slopes |-> r.slopes, intercepts |-> r.intercepts]
    ELSE IF r.need_greater_than_nom
    THEN [err |-> "no voltage greater than nominal", voltage_table |-> sorted,
          slopes |-> r.slopes, intercepts |-> r.intercepts]
    ELSE [err |-> "", voltage_table |-> sorted,
          slopes |-> Append(r.slopes, r.slopes[Len(r.slopes)]),
          intercepts |-> Append(r.intercepts, r.intercepts[Len(r.slopes)])]

\* voltage_table_t::initialize() on a block whose table is `tbl`, `sorted` being
\* the order std::sort leaves: [err, voltage_table, slopes, intercepts].
\* The block keeps the sorted table also when a later check throws.
TableInitialize(tbl, Vnom, sorted) ==
    IF Len(tbl) = 0
    THEN [err |-> "empty table", voltage_table |-> tbl, slopes |-> <<>>, intercepts |-> <<>>]
    ELSE IF Len(tbl) < 2 \/ Len(tbl[1]) # 2
    THEN [err |-> "2 columns and at least 2 rows", voltage_table |-> tbl,
          slopes |-> <<>>, intercepts |-> <<>>]
    ELSE TableChecked(sorted, TableLoop(sorted, Vnom, 1, <<>>, <<>>, TRUE, TRUE))

\* the scan `while (row < size && DOD > voltage_table[row][0]) row++`, 0-based
RECURSIVE TableRow(_, _, _)
TableRow(tbl, DOD, row) ==
    IF row < Len(tbl) /\ Gt(DOD, tbl[row + 1][1]) THEN TableRow(tbl, DOD, row + 1)
    ELSE row

\* calculate_voltage without the clamp of DOD
TableCalculateVoltageUnclamped(p, m, DOD) ==
    LET row == TableRow(p.voltage_table, DOD, 0)
    IN  Fmax(Add(Mul(m.slopes[row + 1], DOD), m.intercepts[row + 1]), Zero)

\* voltage_table_t::calculate_voltage(DOD) of a model with parameter block p
TableCalculateVoltage(p, m, DOD) ==
    LET d == Fmin(Fmax(Zero, DOD), Hundred)
        row == TableRow(p.voltage_table, d, 0)
    IN  Fmax(Add(Mul(m.slopes[row + 1], d), m.intercepts[row + 1]), Zero)

\* calc_DOD(q, qmax)
calc_DOD(q, qmax) == Mul(Sub(One, Div(q, qmax)), Hundred)

\* voltage_table_t::calculate_voltage_for_current(I, q, qmax, T)
TableCalculateVoltageForCurrent(p, m, I, q, qmax) ==
    LET DOD == Mul(Div(Sub(q, Mul(I, p.dt_hr)), qmax), Hundred)
    IN  Mul(TableCalculateVoltage(p, m, DOD), I2D(p.num_cells_series))

\* voltage_table_t::updateVoltage(q, qmax, I, T, dt): the new cell_voltage
TableUpdateVoltage(p, m, q, qmax) ==
    TableCalculateVoltage(p, m, Mul(Hundred, Sub(One, Div(q, qmax))))

\* voltage_table_t::calculate_max_charge_w(q, qmax, T, &max_current)
TableCalculateMaxChargeW(p, m, q, qmax) ==
    LET current == Div(Sub(q, qmax), p.dt_hr)
    IN  [power |-> Mul(Mul(TableCalculateVoltage(p, m, Zero), current),
                       I2D(p.num_cells_series)),
         current |-> current]

\* the loop of calculate_max_discharge_w over the segments, from segment i on
\* (1-based): <<max_P, max_I>>
RECURSIVE TableMaxDischargeLoop(_, _, _, _, _, _, _, _, _)
TableMaxDischargeLoop(p, m, qmax, DOD0, A, B, i, max_P, max_I) ==
    IF i > Len(m.slopes) THEN <<max_P, max_I>>
    ELSE With(Fmax(Zero, Fmin(Hundred,
                  Div(Neg(Add(Mul(A, m.slopes[i]), Mul(B, m.intercepts[i]))),
                      Mul(Mul(<<2, 1>>, B), m.slopes[i])))),
              LAMBDA dod :
         With(Div(Mul(qmax, Sub(Sub(One, Div(DOD0, Hundred)),
                                Sub(One, Div(dod, Hundred)))), p.dt_hr),
              LAMBDA current :
         With(Mul(TableCalculateVoltage(p, m, dod), current),
              LAMBDA pw :
         IF Gt(pw, max_P)
         THEN TableMaxDischargeLoop(p, m, qmax, DOD0, A, B, i + 1, pw, current)
         ELSE TableMaxDischargeLoop(p, m, qmax, DOD0, A, B, i + 1, max_P, max_I))))

\* voltage_table_t::calculate_max_discharge_w(q, qmax, T, &max_current)
TableCalculateMaxDischargeW(p, m, q, qmax) ==
    With(TableMaxDischargeLoop(p, m, qmax, calc_DOD(q, qmax), Sub(q, qmax),
                               Div(qmax, Hundred), 1, Zero, Zero),
         LAMBDA r :
    [power |-> Mul(r[1], I2D(p.num_cells_series)),
     current |-> Fmax(Zero, r[2])])

\* (size_t) incr + row of calculate_current_for_target_w, 0-based.  For
\* incr < 0 the conversion of a negative double to size_t is undefined: `cast`
\* is "wrap" (the sum is row + incr, as on x86-64) or "zero" (the cast
\* saturates to 0, as on AArch64).
TargetSegment(row, incr, cast) ==
    IF incr >= 0 \/ cast = "wrap" THEN row + incr ELSE row

\* the loop of calculate_current_for_target_w: <<P_best, DOD_best>>.
\* P is P_watts per cell times dt_hr.
RECURSIVE TableTargetLoop(_, _, _, _, _, _, _, _, _, _, _, _)
TableTargetLoop(p, m, q, qmax, P, A, B, row, incr, cast, P_best, DOD_best) ==
    IF ~(incr + row < Len(m.slopes) /\ incr + row >= 0) THEN <<P_best, DOD_best>>
    ELSE LET i == TargetSegment(row, incr, cast)
             next == incr + (IF Lt(P, Zero) THEN -1 ELSE 1)
             n == Len(p.voltage_table)
             upper == IF i < n - 1 THEN i ELSE n - 1
             lower == IF i - 1 > 0 THEN i - 1 ELSE 0
             DOD_upper == p.voltage_table[upper + 1][1]
             DOD_lower == p.voltage_table[lower + 1][1]
         IN  With(Mul(B, m.slopes[i + 1]), LAMBDA a :
             With(Add(Mul(A, m.slopes[i + 1]), Mul(B, m.intercepts[i + 1])), LAMBDA b :
             With(Sub(Mul(A, m.intercepts[i + 1]), P), LAMBDA c :
             With(Fabs(Div(Add(Neg(b), Sqrt(Sub(Mul(b, b), Mul(Mul(<<4, 1>>, a), c)))),
                           Mul(<<2, 1>>, a))),
                  LAMBDA DOD_new :
             With(Mul(Sub(q, Div(Mul(Sub(Hundred, DOD_new), qmax), Hundred)),
                      Add(Mul(a, DOD_new), b)),
                  LAMBDA Pn :
             IF Eq(a, Zero)
             THEN TableTargetLoop(p, m, q, qmax, P, A, B, row, next, cast,
                                  P_best, DOD_best)
             ELSE IF Le(DOD_new, DOD_upper) /\ Ge(DOD_new, DOD_lower)
                     /\ Gt(Fabs(Pn), Fabs(P_best))
             THEN TableTargetLoop(p, m, q, qmax, P, A, B, row, next, cast,
                                  Pn, DOD_new)
             ELSE TableTargetLoop(p, m, q, qmax, P, A, B, row, next, cast,
                                  P_best, DOD_best))))))

\* the search of calculate_current_for_target_w once the request is below the
\* maximum: P is P_watts per cell times dt_hr
TableTargetSearch(p, m, q, qmax, cast, DOD, P) ==
    With(TableTargetLoop(p, m, q, qmax, P, Sub(q, qmax), Div(qmax, Hundred),
                         TableRow(p.voltage_table, DOD, 0), 0, cast, Zero,
                         IF Lt(P, Zero) THEN Zero ELSE Hundred),
         LAMBDA r :
    Div(Mul(qmax, Sub(Sub(One, Div(DOD, Hundred)),
                      Sub(One, Div(r[2], Hundred)))), p.dt_hr))

\* calculate_current_for_target_w taking the maximum of charging whatever the
\* sign of the request
TableCalculateCurrentForTargetWChargeLimit(p, m, P_watts, q, qmax, cast) ==
    IF Eq(P_watts, Zero) THEN [value |-> Zero, clamped |-> FALSE]
    ELSE With(TableCalculateMaxChargeW(p, m, q, qmax),
              LAMBDA mx :
         IF Le(Fabs(mx.power), Fabs(P_watts))
         THEN [value |-> mx.current, clamped |-> TRUE]
         ELSE [value |-> TableTargetSearch(p, m, q, qmax, cast, calc_DOD(q, qmax),
                             Mul(Div(P_watts, I2D(p.num_cells_series)), p.dt_hr)),
               clamped |-> FALSE])

\* voltage_table_t::calculate_current_for_target_w(P_watts, q, qmax, T):
\* [value, clamped]
TableCalculateCurrentForTargetW(p, m, P_watts, q, qmax, cast) ==
    IF Eq(P_watts, Zero) THEN [value |-> Zero, clamped |-> FALSE]
    ELSE With(IF Lt(P_watts, Zero) THEN TableCalculateMaxChargeW(p, m, q, qmax)
              ELSE TableCalculateMaxDischargeW(p, m, q, qmax),
              LAMBDA mx :
         IF Le(Fabs(mx.power), Fabs(P_watts))
         THEN [value |-> mx.current, clamped |-> TRUE]
         ELSE [value |-> TableTargetSearch(p, m, q, qmax, cast, calc_DOD(q, qmax),
                             Mul(Div(P_watts, I2D(p.num_cells_series)), p.dt_hr)),
               clamped |-> FALSE])

\* ------------------------------------------------------------------------
\* Root finder (6par_newton.h): newton(x, resid, check, f, 100, 1e-6, 1e-6, 0.7)
\* ------------------------------------------------------------------------
\* TOLF of every call site
NewtonTol == <<1, 1000000>>

\* The iterates the model lets the solver end on: the initial guess, simple
\* multiples of it, and a few fixed currents.
NewtonIterates(x0) ==
    {x0, Zero, Mul(x0, <<1, 2>>), Mul(x0, <<2, 1>>), Neg(x0), One, <<-1, 1>>}

\* Every outcome of a solver run on the residual F from the guess x0: a final
\* iterate x and whether the run converged.  A converged run ends on a root;
\* a run that exhausts its iterations ends on any iterate.
Newton(F(_), x0) ==
    {[x |-> x, converged |-> TRUE] :
        x \in {y \in NewtonIterates(x0) : Le(Fabs(F(y)), NewtonTol)}}
    \cup {[x |-> x, converged |-> FALSE] : x \in NewtonIterates(x0)}

\* ------------------------------------------------------------------------
\* voltage_dynamic_t
\* ------------------------------------------------------------------------
\* the test of parameter_compute() on the four constants: [err, A, B0, K, E0]
ParameterCheck(A, B0, K, E0) ==
    [err |-> IF Lt(A, Zero) \/ Lt(B0, Zero) \/ Lt(K, Zero) \/ Lt(E0, Zero)
             THEN "negative value(s) found" ELSE "",
     A |-> A, B0 |-> B0, K |-> K, E0 |-> E0]

\* parameter_compute() with E0 = Vfull + K - A, the resistance term left out
ParameterComputeUnloaded(p) ==
    LET d == p.dynamic
    IN  With(Sub(d.Vfull, d.Vexp), LAMBDA A :
        With(Div(<<3, 1>>, d.Qexp), LAMBDA B0 :
        With(Div(Mul(Add(Sub(d.Vfull, d.Vnom),
                         Mul(A, Sub(Exp(Mul(Neg(B0), d.Qnom)), One))),
                     Sub(d.Qfull, d.Qnom)), d.Qnom),
             LAMBDA K :
        ParameterCheck(A, B0, K, Sub(Add(d.Vfull, K), A)))))

\* voltage_dynamic_t::parameter_compute(): [err, A, B0, K, E0]
ParameterCompute(p) ==
    LET d == p.dynamic
    IN  With(Sub(d.Vfull, d.Vexp), LAMBDA A :
        With(Div(<<3, 1>>, d.Qexp), LAMBDA B0 :
        With(Div(Mul(Add(Sub(d.Vfull, d.Vnom),
                         Mul(A, Sub(Exp(Mul(Neg(B0), d.Qnom)), One))),
                     Sub(d.Qfull, d.Qnom)), d.Qnom),
             LAMBDA K :
        ParameterCheck(A, B0, K,
            Sub(Add(Add(d.Vfull, K), Mul(p.resistance, Mul(d.Qfull, d.C_rate))), A)))))

\* voltage_dynamic_t::initialize(): [err, state, A, B0, K, E0]
DynamicInitialize(p) ==
    LET d == p.dynamic
    IN  IF Lt(d.Vfull, d.Vexp) \/ Lt(d.Vexp, d.Vnom) \/ Lt(d.Vnom, d.Vcut)
        THEN [err |-> "Vfull > Vexp > Vnom > Vcut", state |-> BaseState(p),
              A |-> Zero, B0 |-> Zero, K |-> Zero, E0 |-> Zero]
        ELSE With(ParameterCompute(p), LAMBDA pc :
             [err |-> pc.err,
              state |-> [cell_voltage |-> d.Vfull, Q_full_mod |-> d.Qfull],
              A |-> pc.A, B0 |-> pc.B0, K |-> pc.K, E0 |-> pc.E0])

\* voltage_dynamic_t::calculate_Qfull_mod(qmax)
CalculateQfullMod(p, m, qmax) ==
    LET d == p.dynamic
        C == Div(Add(Sub(Add(Mul(<<-1, 1>>, d.Vcut), m.E0),
                         Mul(Mul(p.resistance, qmax), d.C_rate)),
                     Mul(m.A, Exp(Mul(Neg(m.B0), qmax)))), m.K)
        x == Div(qmax, Sub(C, One))
    IN  IF ~Eq(d.Vcut, Zero) THEN Add(qmax, x) ELSE qmax

\* E0 - K Qmod/(Qmod - it) + A exp(-B0 it), the open-circuit term shared by
\* voltage_model_tremblay_hybrid and the two solver residuals
TremblayE(m, Q_cell_mod, it) ==
    Add(Sub(m.E0, Mul(m.K, Div(Q_cell_mod, Sub(Q_cell_mod, it)))),
        Mul(m.A, Exp(Mul(Neg(m.B0), it))))

\* voltage_dynamic_t::voltage_model_tremblay_hybrid(Q_cell, I, q0_cell)
VoltageModelTremblayHybrid(p, m, Q_cell, I, q0_cell) ==
    LET Q_cell_mod == CalculateQfullMod(p, m, Q_cell)
        it == Sub(Q_cell, q0_cell)
    IN  Sub(TremblayE(m, Q_cell_mod, it), Mul(p.resistance, I))

\* voltage_dynamic_t::calculate_voltage_for_current(I, q, qmax, T)
DynamicCalculateVoltageForCurrent(p, m, I, q, qmax) ==
    LET n == I2D(p.num_strings)
    IN  Mul(I2D(p.num_cells_series),
            Fmax(VoltageModelTremblayHybrid(p, m, Div(qmax, n), Div(I, n), Div(q, n)),
                 Zero))

\* updateVoltage taking the current of the whole stack as that of one string
DynamicUpdateVoltageStackCurrent(p, m, q, qmax, I) ==
    LET n == I2D(p.num_strings)
    IN  Fmax(VoltageModelTremblayHybrid(p, m, Div(qmax, n), I, Div(q, n)), Zero)

\* voltage_dynamic_t::updateVoltage(q, qmax, I, T, dt): the new cell_voltage
DynamicUpdateVoltage(p, m, q, qmax, I) ==
    LET n == I2D(p.num_strings)
    IN  Fmax(VoltageModelTremblayHybrid(p, m, Div(qmax, n), Div(I, n), Div(q, n)), Zero)

\* set_initial_SOC with the current Qfull * C_rate of parameter_compute in
\* place of 0
DynamicSetInitialSOCLoaded(p, m, init_soc) ==
    LET n == I2D(p.num_strings)
    IN  DynamicUpdateVoltage(p, m,
            Mul(Mul(Mul(init_soc, <<1, 100>>), p.dynamic.Qfull), n),
            Mul(p.dynamic.Qfull, n),
            Mul(Mul(p.dynamic.Qfull, p.dynamic.C_rate), n))

\* voltage_dynamic_t::set_initial_SOC(init_soc): the new cell_voltage
DynamicSetInitialSOC(p, m, init_soc) ==
    LET n == I2D(p.num_strings)
    IN  DynamicUpdateVoltage(p, m,
            Mul(Mul(Mul(init_soc, <<1, 100>>), p.dynamic.Qfull), n),
            Mul(p.dynamic.Qfull, n), Zero)

\* voltage_dynamic_t::calculate_max_charge_w(q, qmax, T, &max_current)
DynamicCalculateMaxChargeW(p, m, q0, qmax0) ==
    LET n == I2D(p.num_strings)
        q == Div(q0, n)
        qmax == Div(qmax0, n)
        current == Div(Sub(q, qmax), p.dt_hr)
    IN  [power |-> Mul(Mul(Mul(current,
                               VoltageModelTremblayHybrid(p, m, qmax, current, qmax)),
                           n), I2D(p.num_cells_series)),
         current |-> Mul(current, n)]

\* the bound on the steps of the scan of calculate_max_discharge_w
MaxScan == 64

\* the scan without its tests of the voltage against Vcut
RECURSIVE DynamicScanAnyVoltage(_, _, _, _, _, _, _, _, _, _)
DynamicScanAnyVoltage(p, m, q, qmax, current, vol, max_p, max_I, max_V, steps) ==
    IF ~Lt(Mul(current, p.dt_hr), Sub(q, tolerance)) \/ steps >= MaxScan
    THEN [max_p |-> max_p, max_I |-> max_I, max_V |-> max_V, steps |-> steps]
    ELSE With(VoltageModelTremblayHybrid(p, m, qmax, current,
                                         Sub(q, Mul(current, p.dt_hr))),
              LAMBDA v :
         With(Mul(current, v), LAMBDA pw :
         With(Add(current, Div(q, <<10, 1>>)), LAMBDA next :
         IF Gt(pw, max_p)
         THEN DynamicScanAnyVoltage(p, m, q, qmax, next, v, pw, current, v, steps + 1)
         ELSE DynamicScanAnyVoltage(p, m, q, qmax, next, v, max_p, max_I, max_V,
                                    steps + 1))))

\* the scan of calculate_max_discharge_w: [max_p, max_I, max_V, steps]
RECURSIVE DynamicScan(_, _, _, _, _, _, _, _, _, _)
DynamicScan(p, m, q, qmax, current, vol, max_p, max_I, max_V, steps) ==
    IF ~(Lt(Mul(current, p.dt_hr), Sub(q, tolerance)) /\ Ge(vol, p.dynamic.Vcut))
       \/ steps >= MaxScan
    THEN [max_p |-> max_p, max_I |-> max_I, max_V |-> max_V, steps |-> steps]
    ELSE With(VoltageModelTremblayHybrid(p, m, qmax, current,
                                         Sub(q, Mul(current, p.dt_hr))),
              LAMBDA v :
         With(Mul(current, v), LAMBDA pw :
         With(Add(current, Div(q, <<10, 1>>)), LAMBDA next :
         IF Gt(pw, max_p) /\ Ge(v, p.dynamic.Vcut)
         THEN DynamicScan(p, m, q, qmax, next, v, pw, current, v, steps + 1)
         ELSE DynamicScan(p, m, q, qmax, next, v, max_p, max_I, max_V, steps + 1))))

\* voltage_dynamic_t::calculate_max_discharge_w(q, qmax, T, &max_current)
DynamicCalculateMaxDischargeW(p, m, q0, qmax0) ==
    LET n == I2D(p.num_strings)
    IN  With(DynamicScan(p, m, Div(q0, n), Div(qmax0, n),
                         Mul(Div(q0, n), <<1, 2>>), p.dynamic.Vcut,
                         Zero, Zero, Zero, 0),
             LAMBDA r :
        [power |-> Mul(Mul(r.max_p, n), I2D(p.num_cells_series)),
         current |-> Mul(r.max_I, n),
         voltage |-> r.max_V, steps |-> r.steps])

\* voltage_dynamic_t::solve_current_for_charge_power(x, f)
SolveCurrentForChargePower(p, m, sv, I) ==
    LET it == Sub(sv.solver_Q, Add(sv.solver_q, Mul(I, p.dt_hr)))
        V == Add(TremblayE(m, sv.solver_Q_mod, it), Mul(p.resistance, I))
    IN  Sub(Mul(I, V), sv.solver_power)

\* voltage_dynamic_t::solve_current_for_discharge_power(x, f)
SolveCurrentForDischargePower(p, m, sv, I) ==
    LET it == Sub(sv.solver_Q, Sub(sv.solver_q, Mul(I, p.dt_hr)))
        V == Sub(TremblayE(m, sv.solver_Q_mod, it), Mul(p.resistance, I))
    IN  Sub(Mul(I, V), sv.solver_power)

\* the solver context calculate_current_for_target_w sets up
DynamicSolverSetup(p, m, P_watts, q, qmax) ==
    LET n == I2D(p.num_strings)
    IN  [solver_power |-> Div(Fabs(P_watts), I2D(p.num_cells_series * p.num_strings)),
         solver_q |-> Div(q, n),
         solver_Q |-> Div(qmax, n),
         solver_Q_mod |-> IF ~Eq(p.dynamic.Vcut, Zero)
                          THEN CalculateQfullMod(p, m, Div(qmax, n))
                          ELSE Div(qmax, n)]

\* the initial guess x[0] of calculate_current_for_target_w
DynamicGuess(p, m, sv) ==
    IF ~Eq(m.state.cell_voltage, Zero)
    THEN Mul(Div(sv.solver_power, m.state.cell_voltage), p.dt_hr)
    ELSE Mul(Div(sv.solver_power, p.dynamic.Vnom), p.dt_hr)

\* the solve of calculate_current_for_target_w giving up the iterate of a run
\* that did not converge
DynamicSolveChecked(p, m, P_watts, sv) ==
    LET direction == IF Gt(P_watts, Zero) THEN One ELSE <<-1, 1>>
        runs == IF Gt(P_watts, Zero)
                THEN Newton(LAMBDA I : SolveCurrentForDischargePower(p, m, sv, I),
                            DynamicGuess(p, m, sv))
                ELSE Newton(LAMBDA I : SolveCurrentForChargePower(p, m, sv, I),
                            DynamicGuess(p, m, sv))
    IN  {[value |-> IF o.converged
                    THEN Mul(Mul(o.x, I2D(p.num_strings)), direction)
                    ELSE NaN,
          solver_calls |-> 1, converged |-> o.converged] : o \in runs}

\* the solver run of calculate_current_for_target_w in the context sv, and the
\* current made of its final iterate
DynamicSolve(p, m, P_watts, sv) ==
    LET direction == IF Gt(P_watts, Zero) THEN One ELSE <<-1, 1>>
        runs == IF Gt(P_watts, Zero)
                THEN Newton(LAMBDA I : SolveCurrentForDischargePower(p, m, sv, I),
                            DynamicGuess(p, m, sv))
                ELSE Newton(LAMBDA I : SolveCurrentForChargePower(p, m, sv, I),
                            DynamicGuess(p, m, sv))
    IN  {[value |-> Mul(Mul(o.x, I2D(p.num_strings)), direction),
          solver_calls |-> 1, converged |-> o.converged] : o \in runs}

\* calculate_current_for_target_w without its first line
DynamicCalculateCurrentForTargetWSolving(p, m, P_watts, q, qmax) ==
    With(DynamicSolverSetup(p, m, P_watts, q, qmax),
         LAMBDA sv : DynamicSolve(p, m, P_watts, sv))

\* voltage_dynamic_t::calculate_current_for_target_w(P_watts, q, qmax, T): every
\* [value, solver_calls, converged] the call can return
DynamicCalculateCurrentForTargetW(p, m, P_watts, q, qmax) ==
    IF Eq(P_watts, Zero)
    THEN {[value |-> Zero, solver_calls |-> 0, converged |-> FALSE]}
    ELSE With(DynamicSolverSetup(p, m, P_watts, q, qmax),
              LAMBDA sv : DynamicSolve(p, m, P_watts, sv))

\* ------------------------------------------------------------------------
\* voltage_vanadium_redox_t
\* ------------------------------------------------------------------------
\* voltage_vanadium_redox_t::initialize(): m_RCF = 8.314 * 1.38 / (26.801 * 3600)
\* = 1.18915e-4, taken as (8.314 / 26.801) * (1.38 / 3600): 26.801 * 3600 is
\* above the model's largest double
VanadiumRCF == Mul(Div(Q(8314, 1000), Q(26801, 1000)), Div(Q(138, 100), Q(3600, 1)))

\* the 1e-3 the model raises a zero state of charge to
SOCFloor == <<1, 1000>>

\* the state of charge voltage_model puts in the logarithm
VanadiumSOCUse(q0, qmax) ==
    LET SOC_use == Div(q0, qmax)
    IN  IF Gt(SOC_use, Sub(One, tolerance)) THEN Sub(One, tolerance)
        ELSE IF Eq(SOC_use, Zero) THEN SOCFloor
        ELSE SOC_use

\* std::log(std::pow(SOC, 2) / std::pow(1 - SOC, 2)), taken as
\* 2 (log |SOC| - log |1 - SOC|): the squares of 1e-3 and of `tolerance` are
\* below the model's smallest double.  Equal on the special values too:
\* -inf at SOC = 0, +inf at SOC = 1, NaN at NaN and at +-inf.
VanadiumLog(SOC) ==
    Mul(<<2, 1>>, Sub(Ln(Fabs(SOC)), Ln(Fabs(Sub(One, SOC)))))

\* voltage_vanadium_redox_t::voltage_model(q0, qmax, I_string, T)
VanadiumVoltageModel(p, m, q0, qmax, I_string, T) ==
    LET A == VanadiumLog(VanadiumSOCUse(q0, qmax))
    IN  Add(Add(p.Vnom_default, Mul(Mul(m.RCF, T), A)),
            Mul(Fabs(I_string), p.resistance))

\* voltage_vanadium_redox_t::calculate_voltage_for_current(I, q, qmax, T_k)
VanadiumCalculateVoltageForCurrent(p, m, I, q, qmax, T_k) ==
    LET n == I2D(p.num_strings)
    IN  Mul(VanadiumVoltageModel(p, m, Div(q, n), Div(qmax, n), Div(I, n), T_k),
            I2D(p.num_cells_series))

\* 273.15
Kelvin0 == Q(5463, 20)

\* voltage_vanadium_redox_t::updateVoltage(q, qmax, I, temp, dt): the new cell_voltage
VanadiumUpdateVoltage(p, m, q, qmax, I, temp) ==
    LET n == I2D(p.num_strings)
    IN  VanadiumVoltageModel(p, m, Div(q, n), Div(qmax, n), Div(I, n),
                             Add(temp, Kelvin0))

\* voltage_vanadium_redox_t::set_initial_SOC(init_soc): the new cell_voltage
VanadiumSetInitialSOC(p, m, init_soc) ==
    VanadiumUpdateVoltage(p, m, init_soc, Hundred, Zero, <<25, 1>>)

\* voltage_vanadium_redox_t::calculate_max_charge_w(q, qmax, kelvin, &max_current)
VanadiumCalculateMaxChargeW(p, m, q0, qmax0, kelvin) ==
    LET n == I2D(p.num_strings)
        qmax == Div(qmax0, n)
        q == Div(q0, n)
        max_I == Div(Sub(q, qmax), p.dt_hr)
    IN  [power |-> Mul(Mul(Mul(VanadiumVoltageModel(p, m, qmax, qmax, max_I, kelvin),
                               max_I), n), I2D(p.num_cells_series)),
         current |-> Mul(max_I, n)]

\* voltage_vanadium_redox_t::solve_max_discharge_power(x, f)
SolveMaxDischargePower(p, m, sv, x) ==
    LET I == Fabs(x)
        SOC == Div(Sub(sv.solver_q, Mul(I, p.dt_hr)), sv.solver_Q)
        twoI == Mul(<<2, 1>>, I)
    IN  Add(Add(p.Vnom_default, Mul(twoI, p.resistance)),
            Mul(Mul(m.RCF, sv.solver_T_k),
                Sub(VanadiumLog(SOC),
                    Mul(twoI, Sub(Div(One, SOC), Div(One, Sub(One, SOC)))))))

\* voltage_vanadium_redox_t::solve_current_for_power(x, f)
SolveCurrentForPower(p, m, sv, I) ==
    LET SOC == Div(Sub(sv.solver_q, Mul(I, p.dt_hr)), sv.solver_Q)
    IN  Sub(Mul(I, Add(Add(p.Vnom_default,
                           Mul(Mul(m.RCF, sv.solver_T_k), VanadiumLog(SOC))),
                       Mul(Fabs(I), p.resistance))),
            sv.solver_power)

\* the end of calculate_max_discharge_w: the power at the solver's final
\* iterate x, and the floor of power and current at 0
VanadiumMaxDischargeResult(p, m, sv, kelvin, o) ==
    LET n == I2D(p.num_strings)
    IN  With(Mul(Mul(Mul(o.x, VanadiumVoltageModel(p, m,
                                  Sub(sv.solver_q, Mul(o.x, p.dt_hr)),
                                  sv.solver_Q, o.x, kelvin)),
                     n), I2D(p.num_cells_series)),
             LAMBDA power :
        IF Lt(power, Zero)
        THEN [power |-> Zero, current |-> Mul(Zero, n),
              solver_calls |-> 1, converged |-> o.converged]
        ELSE [power |-> power, current |-> Mul(o.x, n),
              solver_calls |-> 1, converged |-> o.converged])

\* voltage_vanadium_redox_t::calculate_max_discharge_w(q, qmax, kelvin,
\* &max_current): every [power, current, solver_calls, converged] it can return
VanadiumCalculateMaxDischargeW(p, m, q, qmax, kelvin) ==
    LET n == I2D(p.num_strings)
        sv == [solver_q |-> Div(q, n), solver_Q |-> Div(qmax, n),
               solver_T_k |-> kelvin, solver_power |-> Zero]
    IN  {VanadiumMaxDischargeResult(p, m, sv, kelvin, o) :
            o \in Newton(LAMBDA x : SolveMaxDischargePower(p, m, sv, x),
                         Div(Sub(sv.solver_q, tolerance), p.dt_hr))}

\* the initial guess x[0] of calculate_current_for_target_w
VanadiumGuess(p, m, sv) ==
    IF ~Eq(m.state.cell_voltage, Zero)
    THEN Mul(Div(sv.solver_power, m.state.cell_voltage), p.dt_hr)
    ELSE Mul(Div(sv.solver_power, p.Vnom_default), p.dt_hr)

\* voltage_vanadium_redox_t::calculate_current_for_target_w(P_watts, q, qmax,
\* kelvin): every [value, solver_calls, converged] it can return
VanadiumCalculateCurrentForTargetW(p, m, P_watts, q, qmax, kelvin) ==
    LET n == I2D(p.num_strings)
        sv == [solver_power |-> Div(P_watts, I2D(p.num_cells_series * p.num_strings)),
               solver_q |-> Div(q, n), solver_Q |-> Div(qmax, n),
               solver_T_k |-> kelvin]
    IN  IF Eq(P_watts, Zero)
        THEN {[value |-> Zero, solver_calls |-> 0, converged |-> FALSE]}
        ELSE {[value |-> Mul(o.x, n), solver_calls |-> 1, converged |-> o.converged] :
                 o \in Newton(LAMBDA I : SolveCurrentForPower(p, m, sv, I),
                              VanadiumGuess(p, m, sv))}

\* ------------------------------------------------------------------------
\* The state: parameter blocks, voltage models, and the last call
\* ------------------------------------------------------------------------
VARIABLES
    heap,   \* the voltage_params blocks held through std::shared_ptr, by id
    obj,    \* the voltage_t instances, by id
    ret     \* the last call: operation, arguments, result or error

vars == <<heap, obj, ret>>

\* number of voltage_params blocks and of voltage_t instances
MaxBlocks == 2

MaxObjs == 3

Blocks == 1..MaxBlocks

Objs == 1..MaxObjs

\* no block / no instance at this id
FreeBlock == [voltage_choice |-> "free"]

NoObj == [kind |-> "none"]

\* an instance: its variant, the block `params` points to, the voltage_state
\* it owns and the members of its variant
Instance(kind, b, st, slopes, intercepts, A, B0, K, E0, RCF) ==
    [kind |-> kind, params |-> b, state |-> st,
     slopes |-> slopes, intercepts |-> intercepts,
     A |-> A, B0 |-> B0, K |-> K, E0 |-> E0, RCF |-> RCF]

Live(o) == obj[o].kind # "none"

\* the block an instance's `params` points to
ParamsOf(o) == heap[obj[o].params]

\* a block no instance and no caller holds: std::make_shared takes one
FreshBlocks == {b \in Blocks : heap[b] = FreeBlock}

NoRet ==
    [op |-> "none", o |-> 0, P |-> Zero, q |-> Zero, qmax |-> Zero, I |-> Zero,
     T |-> Zero, DOD |-> Zero, value |-> Zero, current |-> Zero, err |-> "",
     solver_calls |-> 0, converged |-> FALSE, tbl |-> <<>>, params |-> FreeBlock]

Call(op, o) == [NoRet EXCEPT !.op = op, !.o = o]

\* ------------------------------------------------------------------------
\* Construction
\* ------------------------------------------------------------------------
\* voltage_table_t(num_cells_series, num_strings, voltage, voltage_table, R,
\* dt_hour): the block is the instance's own; a throwing initialize() leaves
\* neither instance nor block
TableNew(o, b, cells, strings, voltage, tbl, R, dt) ==
    /\ ~Live(o)
    /\ b \in FreshBlocks
    /\ \E sorted \in SortOutcomes(tbl) : \E r \in {TableInitialize(tbl, voltage, sorted)} :
         LET p0 == [BaseParams("TABLE", cells, strings, voltage, dt)
                       EXCEPT !.resistance = R, !.voltage_table = tbl]
             p1 == [p0 EXCEPT !.voltage_table = r.voltage_table]
         IN  IF r.err # ""
             THEN /\ ret' = [Call("voltage_table_t", o) EXCEPT
                                !.err = r.err, !.tbl = tbl, !.params = p0]
                  /\ UNCHANGED <<heap, obj>>
             ELSE /\ heap' = [heap EXCEPT ![b] = p1]
                  /\ obj' = [obj EXCEPT ![o] =
                        Instance("table", b, BaseState(p0), r.slopes, r.intercepts,
                                 Zero, Zero, Zero, Zero, Zero)]
                  /\ ret' = [Call("voltage_table_t", o) EXCEPT !.tbl = tbl, !.params = p0]

\* ------------------------------------------------------------------------
\* Calls on a voltage_table_t
\* ------------------------------------------------------------------------
IsTable(o) == obj[o].kind = "table"

\* calculate_voltage(DOD)
TableCalculateVoltageCall(o, DOD) ==
    /\ IsTable(o)
    /\ ret' = [Call("calculate_voltage", o) EXCEPT
                  !.DOD = DOD, !.value = TableCalculateVoltage(ParamsOf(o), obj[o], DOD)]
    /\ UNCHANGED <<heap, obj>>

\* set_initial_SOC(init_soc)
TableSetInitialSOC(o, init_soc) ==
    /\ IsTable(o)
    /\ obj' = [obj EXCEPT ![o].state.cell_voltage =
                  TableCalculateVoltage(ParamsOf(o), obj[o], Sub(Hundred, init_soc))]
    /\ ret' = [Call("set_initial_SOC", o) EXCEPT !.DOD = Sub(Hundred, init_soc)]
    /\ UNCHANGED heap

\* updateVoltage(q, qmax, I, temp, dt)
TableUpdateVoltageCall(o, q, qmax, I) ==
    /\ IsTable(o)
    /\ obj' = [obj EXCEPT ![o].state.cell_voltage =
                  TableUpdateVoltage(ParamsOf(o), obj[o], q, qmax)]
    /\ ret' = [Call("updateVoltage", o) EXCEPT !.q = q, !.qmax = qmax, !.I = I]
    /\ UNCHANGED heap

\* calculate_voltage_for_current(I, q, qmax, T)
TableCalculateVoltageForCurrentCall(o, I, q, qmax) ==
    /\ IsTable(o)
    /\ ret' = [Call("calculate_voltage_for_current", o) EXCEPT
                  !.q = q, !.qmax = qmax, !.I = I,
                  !.value = TableCalculateVoltageForCurrent(ParamsOf(o), obj[o], I, q, qmax)]
    /\ UNCHANGED <<heap, obj>>

\* calculate_max_charge_w(q, qmax, kelvin, &max_current)
TableCalculateMaxChargeWCall(o, q, qmax) ==
    /\ IsTable(o)
    /\ \E r \in {TableCalculateMaxChargeW(ParamsOf(o), obj[o], q, qmax)} :
           ret' = [Call("calculate_max_charge_w", o) EXCEPT
                      !.q = q, !.qmax = qmax, !.value = r.power, !.current = r.current]
    /\ UNCHANGED <<heap, obj>>

\* calculate_max_discharge_w(q, qmax, kelvin, &max_current)
TableCalculateMaxDischargeWCall(o, q, qmax) ==
    /\ IsTable(o)
    /\ \E r \in {TableCalculateMaxDischargeW(ParamsOf(o), obj[o], q, qmax)} :
           ret' = [Call("calculate_max_discharge_w", o) EXCEPT
                      !.q = q, !.qmax = qmax, !.value = r.power, !.current = r.current]
    /\ UNCHANGED <<heap, obj>>

\* calculate_current_for_target_w(P_watts, q, qmax, kelvin)
TableCalculateCurrentForTargetWCall(o, P_watts, q, qmax) ==
    /\ IsTable(o)
    /\ \E cast \in {"wrap", "zero"} :
         \E r \in {TableCalculateCurrentForTargetW(ParamsOf(o), obj[o], P_watts, q, qmax, cast)} :
             ret' = [Call("calculate_current_for_target_w", o) EXCEPT
                        !.P = P_watts, !.q = q, !.qmax = qmax, !.value = r.value]
    /\ UNCHANGED <<heap, obj>>

\* ------------------------------------------------------------------------
\* voltage_dynamic_t: construction and calls
\* ------------------------------------------------------------------------
IsDynamic(o) == obj[o].kind = "dynamic"

\* voltage_dynamic_t(num_cells_series, num_strings, voltage, Vfull, Vexp, Vnom,
\* Qfull, Qexp, Qnom, Vcut, C_rate, R, dt_hr), d being the record of the
\* eight values stored in params->dynamic
DynamicNew(o, b, cells, strings, voltage, d, R, dt) ==
    /\ ~Live(o)
    /\ b \in FreshBlocks
    /\ LET p0 == [BaseParams("MODEL", cells, strings, voltage, dt)
                     EXCEPT !.resistance = R, !.dynamic = d]
       IN  \E r \in {DynamicInitialize(p0)} :
           IF r.err # ""
           THEN /\ ret' = [Call("voltage_dynamic_t", o) EXCEPT !.err = r.err, !.params = p0]
                /\ UNCHANGED <<heap, obj>>
           ELSE /\ heap' = [heap EXCEPT ![b] = p0]
                /\ obj' = [obj EXCEPT ![o] =
                      Instance("dynamic", b, r.state, <<>>, <<>>, r.A, r.B0, r.K, r.E0, Zero)]
                /\ ret' = [Call("voltage_dynamic_t", o) EXCEPT !.params = p0]

\* voltage_dynamic_t(std::shared_ptr<voltage_params> p) on the block b
DynamicNewShared(o, b) ==
    /\ ~Live(o)
    /\ heap[b] # FreeBlock
    /\ \E r \in {DynamicInitialize(heap[b])} :
           IF r.err # ""
           THEN /\ ret' = [Call("voltage_dynamic_t", o) EXCEPT !.err = r.err, !.params = heap[b]]
                /\ UNCHANGED <<heap, obj>>
           ELSE /\ obj' = [obj EXCEPT ![o] =
                      Instance("dynamic", b, r.state, <<>>, <<>>, r.A, r.B0, r.K, r.E0, Zero)]
                /\ ret' = [Call("voltage_dynamic_t", o) EXCEPT !.params = heap[b]]
                /\ UNCHANGED heap

\* set_initial_SOC(init_soc)
DynamicSetInitialSOCCall(o, init_soc) ==
    /\ IsDynamic(o)
    /\ obj' = [obj EXCEPT ![o].state.cell_voltage =
                  DynamicSetInitialSOC(ParamsOf(o), obj[o], init_soc)]
    /\ ret' = [Call("set_initial_SOC", o) EXCEPT
                  !.q = Mul(Mul(Mul(init_soc, <<1, 100>>), ParamsOf(o).dynamic.Qfull),
                            I2D(ParamsOf(o).num_strings)),
                  !.qmax = Mul(ParamsOf(o).dynamic.Qfull, I2D(ParamsOf(o).num_strings))]
    /\ UNCHANGED heap

\* updateVoltage(q, qmax, I, temp, dt)
DynamicUpdateVoltageCall(o, q, qmax, I) ==
    /\ IsDynamic(o)
    /\ obj' = [obj EXCEPT ![o].state.cell_voltage =
                  DynamicUpdateVoltage(ParamsOf(o), obj[o], q, qmax, I)]
    /\ ret' = [Call("updateVoltage", o) EXCEPT !.q = q, !.qmax = qmax, !.I = I]
    /\ UNCHANGED heap

\* calculate_voltage_for_current(I, q, qmax, T)
DynamicCalculateVoltageForCurrentCall(o, I, q, qmax) ==
    /\ IsDynamic(o)
    /\ ret' = [Call("calculate_voltage_for_current", o) EXCEPT
                  !.q = q, !.qmax = qmax, !.I = I,
                  !.value = DynamicCalculateVoltageForCurrent(ParamsOf(o), obj[o], I, q, qmax)]
    /\ UNCHANGED <<heap, obj>>

\* calculate_max_charge_w keeping the voltage it computed in cell_voltage
DynamicCalculateMaxChargeWStoring(o, q, qmax) ==
    /\ IsDynamic(o)
    /\ \E r \in {DynamicCalculateMaxChargeW(ParamsOf(o), obj[o], q, qmax)} :
           /\ ret' = [Call("calculate_max_charge_w", o) EXCEPT
                         !.q = q, !.qmax = qmax, !.value = r.power, !.current = r.current]
           /\ obj' = [obj EXCEPT ![o].state.cell_voltage =
                         DynamicCalculateVoltageForCurrent(ParamsOf(o), obj[o],
                                                           r.current, qmax, qmax)]
    /\ UNCHANGED heap

\* calculate_max_charge_w(q, qmax, kelvin, &max_current)
DynamicCalculateMaxChargeWCall(o, q, qmax) ==
    /\ IsDynamic(o)
    /\ \E r \in {DynamicCalculateMaxChargeW(ParamsOf(o), obj[o], q, qmax)} :
           ret' = [Call("calculate_max_charge_w", o) EXCEPT
                      !.q = q, !.qmax = qmax, !.value = r.power, !.current = r.current]
    /\ UNCHANGED <<heap, obj>>

\* calculate_max_discharge_w(q, qmax, kelvin, &max_current)
DynamicCalculateMaxDischargeWCall(o, q, qmax) ==
    /\ IsDynamic(o)
    /\ \E r \in {DynamicCalculateMaxDischargeW(ParamsOf(o), obj[o], q, qmax)} :
           ret' = [Call("calculate_max_discharge_w", o) EXCEPT
                      !.q = q, !.qmax = qmax, !.value = r.power, !.current = r.current]
    /\ UNCHANGED <<heap, obj>>

\* calculate_current_for_target_w(P_watts, q, qmax, kelvin)
DynamicCalculateCurrentForTargetWCall(o, P_watts, q, qmax) ==
    /\ IsDynamic(o)
    /\ \E r \in DynamicCalculateCurrentForTargetW(ParamsOf(o), obj[o], P_watts, q, qmax) :
         ret' = [Call("calculate_current_for_target_w", o) EXCEPT
                    !.P = P_watts, !.q = q, !.qmax = qmax, !.value = r.value,
                    !.solver_calls = r.solver_calls, !.converged = r.converged]
    /\ UNCHANGED <<heap, obj>>

\* ------------------------------------------------------------------------
\* voltage_vanadium_redox_t: construction and calls
\* ------------------------------------------------------------------------
IsVanadium(o) == obj[o].kind = "vanadium"

\* voltage_vanadium_redox_t(num_cells_series, num_strings, Vnom_default, R, dt_hour)
VanadiumNew(o, b, cells, strings, Vnom_default, R, dt) ==
    /\ ~Live(o)
    /\ b \in FreshBlocks
    /\ LET p0 == [BaseParams("MODEL", cells, strings, Vnom_default, dt)
                     EXCEPT !.resistance = R]
       IN  /\ heap' = [heap EXCEPT ![b] = p0]
           /\ obj' = [obj EXCEPT ![o] =
                 Instance("vanadium", b, BaseState(p0), <<>>, <<>>,
                          Zero, Zero, Zero, Zero, VanadiumRCF)]
           /\ ret' = [Call("voltage_vanadium_redox_t", o) EXCEPT !.params = p0]

\* set_initial_SOC(init_soc)
VanadiumSetInitialSOCCall(o, init_soc) ==
    /\ IsVanadium(o)
    /\ obj' = [obj EXCEPT ![o].state.cell_voltage =
                  VanadiumSetInitialSOC(ParamsOf(o), obj[o], init_soc)]
    /\ ret' = [Call("set_initial_SOC", o) EXCEPT
                  !.q = init_soc, !.qmax = Hundred, !.T = <<25, 1>>]
    /\ UNCHANGED heap

\* updateVoltage(q, qmax, I, temp, dt)
VanadiumUpdateVoltageCall(o, q, qmax, I, temp) ==
    /\ IsVanadium(o)
    /\ obj' = [obj EXCEPT ![o].state.cell_voltage =
                  VanadiumUpdateVoltage(ParamsOf(o), obj[o], q, qmax, I, temp)]
    /\ ret' = [Call("updateVoltage", o) EXCEPT !.q = q, !.qmax = qmax, !.I = I, !.T = temp]
    /\ UNCHANGED heap

\* calculate_voltage_for_current(I, q, qmax, T_k)
VanadiumCalculateVoltageForCurrentCall(o, I, q, qmax, T_k) ==
    /\ IsVanadium(o)
    /\ ret' = [Call("calculate_voltage_for_current", o) EXCEPT
                  !.q = q, !.qmax = qmax, !.I = I, !.T = T_k,
                  !.value = VanadiumCalculateVoltageForCurrent(ParamsOf(o), obj[o],
                                                               I, q, qmax, T_k)]
    /\ UNCHANGED <<heap, obj>>

\* calculate_max_charge_w(q, qmax, kelvin, &max_current)
VanadiumCalculateMaxChargeWCall(o, q, qmax, kelvin) ==
    /\ IsVanadium(o)
    /\ \E r \in {VanadiumCalculateMaxChargeW(ParamsOf(o), obj[o], q, qmax, kelvin)} :
           ret' = [Call("calculate_max_charge_w", o) EXCEPT
                      !.q = q, !.qmax = qmax, !.T = kelvin,
                      !.value = r.power, !.current = r.current]
    /\ UNCHANGED <<heap, obj>>

\* calculate_max_discharge_w(q, qmax, kelvin, &max_current)
VanadiumCalculateMaxDischargeWCall(o, q, qmax, kelvin) ==
    /\ IsVanadium(o)
    /\ \E r \in VanadiumCalculateMaxDischargeW(ParamsOf(o), obj[o], q, qmax, kelvin) :
         ret' = [Call("calculate_max_discharge_w", o) EXCEPT
                    !.q = q, !.qmax = qmax, !.T = kelvin,
                    !.value = r.power, !.current = r.current,
                    !.solver_calls = r.solver_calls, !.converged = r.converged]
    /\ UNCHANGED <<heap, obj>>

\* calculate_current_for_target_w(P_watts, q, qmax, kelvin)
VanadiumCalculateCurrentForTargetWCall(o, P_watts, q, qmax, kelvin) ==
    /\ IsVanadium(o)
    /\ \E r \in VanadiumCalculateCurrentForTargetW(ParamsOf(o), obj[o], P_watts, q, qmax, kelvin) :
         ret' = [Call("calculate_current_for_target_w", o) EXCEPT
                    !.P = P_watts, !.q = q, !.qmax = qmax, !.T = kelvin, !.value = r.value,
                    !.solver_calls = r.solver_calls, !.converged = r.converged]
    /\ UNCHANGED <<heap, obj>>

\* ------------------------------------------------------------------------
\* Blocks handed in by a caller, copies and assignments
\* ------------------------------------------------------------------------
\* a caller fills a voltage_params block to hand to a shared_ptr constructor
MakeParams(b, p) ==
    /\ b \in FreshBlocks
    /\ heap' = [heap EXCEPT ![b] = p]
    /\ ret' = [Call("make_shared", 0) EXCEPT !.params = p]
    /\ UNCHANGED obj

\* voltage_table_t(std::shared_ptr<voltage_params> p) on the block b:
\* initialize() sorts the table of the block it was handed, and the block
\* keeps that order also when a later check throws
TableNewShared(o, b) ==
    /\ ~Live(o)
    /\ heap[b] # FreeBlock
    /\ \E sorted \in SortOutcomes(heap[b].voltage_table) :
       \E r \in {TableInitialize(heap[b].voltage_table, heap[b].Vnom_default, sorted)} :
          /\ heap' = [heap EXCEPT ![b].voltage_table = r.voltage_table]
          /\ IF r.err # ""
             THEN /\ ret' = [Call("voltage_table_t", o) EXCEPT
                                !.err = r.err, !.tbl = heap[b].voltage_table,
                                !.params = heap[b]]
                  /\ UNCHANGED obj
             ELSE /\ obj' = [obj EXCEPT ![o] =
                        Instance("table", b, BaseState(heap[b]), r.slopes, r.intercepts,
                                 Zero, Zero, Zero, Zero, Zero)]
                  /\ ret' = [Call("voltage_table_t", o) EXCEPT
                                !.tbl = heap[b].voltage_table, !.params = heap[b]]

\* voltage_vanadium_redox_t(std::shared_ptr<voltage_params> p) on the block b
VanadiumNewShared(o, b) ==
    /\ ~Live(o)
    /\ heap[b] # FreeBlock
    /\ obj' = [obj EXCEPT ![o] =
          Instance("vanadium", b, BaseState(heap[b]), <<>>, <<>>,
                   Zero, Zero, Zero, Zero, VanadiumRCF)]
    /\ ret' = [Call("voltage_vanadium_redox_t", o) EXCEPT !.params = heap[b]]
    /\ UNCHANGED heap

\* the copy constructor keeping the pointer to the block of rhs
CopyShallow(o, rhs, b) ==
    /\ ~Live(o) /\ Live(rhs)
    /\ b \in FreshBlocks
    /\ obj' = [obj EXCEPT ![o] = obj[rhs]]
    /\ ret' = Call("copy", o)
    /\ UNCHANGED heap

\* the copy constructor (and clone()) of each variant: voltage_t(rhs) makes a
\* state and a block of its own, operator=(rhs) then copies the members
Copy(o, rhs, b) ==
    /\ ~Live(o) /\ Live(rhs)
    /\ b \in FreshBlocks
    /\ heap' = [heap EXCEPT ![b] = ParamsOf(rhs)]
    /\ obj' = [obj EXCEPT ![o] = [obj[rhs] EXCEPT !.params = b]]
    /\ ret' = Call("copy", o)

\* operator=(rhs) of each variant, between two instances of one variant:
\* *params = *rhs.params writes the block o points to, whoever else holds it
Assign(o, rhs) ==
    /\ Live(o) /\ Live(rhs) /\ o # rhs
    /\ obj[o].kind = obj[rhs].kind
    /\ heap' = [heap EXCEPT ![obj[o].params] = ParamsOf(rhs)]
    /\ obj' = [obj EXCEPT ![o] = [obj[rhs] EXCEPT !.params = obj[o].params]]
    /\ ret' = Call("operator=", o)

\* ------------------------------------------------------------------------
\* Inputs of the calls
\* ------------------------------------------------------------------------
QueryDODs == {<<-10, 1>>, Zero, <<25, 1>>, <<50, 1>>, <<75, 1>>, Hundred, <<120, 1>>}

\* <<q, qmax>>
Charges == {<<Zero, <<10, 1>>>>, <<<<5, 1>>, <<10, 1>>>>, <<<<10, 1>>, <<10, 1>>>>}

Powers == {Zero, <<10, 1>>, <<-10, 1>>, <<1000, 1>>, <<-1000, 1>>}

\* the power the last calculate_max_charge_w / calculate_max_discharge_w
\* returned, which the dispatch layer may ask for next
LastPower ==
    IF ret.op \in {"calculate_max_charge_w", "calculate_max_discharge_w"}
    THEN {ret.value} ELSE {}

InitEmpty ==
    /\ heap = [b \in Blocks |-> FreeBlock]
    /\ obj = [o \in Objs |-> NoObj]
    /\ ret = NoRet

\* ------------------------------------------------------------------------
\* SpecTable: one voltage_table_t, built from every table of up to MaxRows
\* rows over a grid; its curve is read and its state stepped
\* ------------------------------------------------------------------------
MaxRows == 3

TableDODs == {Zero, <<50, 1>>, Hundred}

TableVolts == {<<17, 5>>, <<19, 5>>, <<41, 10>>}

TableNominals == {<<18, 5>>, <<19, 5>>}

SeqsUpTo(S, n) == UNION {[1..k -> S] : k \in 0..n}

\* tables of 2 columns, and two-row tables of 1 and of 3 columns
InputTables ==
    SeqsUpTo({<<d, v>> : d \in TableDODs, v \in TableVolts}, MaxRows)
    \cup {<<<<Zero>>, <<Hundred>>>>,
          <<<<Zero, <<41, 10>>, Zero>>, <<Hundred, <<17, 5>>, Zero>>>>}

\* the exception of a constructor ends the run
TableConstruct ==
    /\ ~Live(1) /\ ret.err = ""
    /\ \E tbl \in InputTables, vnom \in TableNominals :
          TableNew(1, 1, 2, 1, vnom, tbl, <<1, 10>>, One)

TableCurve == \E d \in QueryDODs : TableCalculateVoltageCall(1, d)

TableStep ==
    \/ \E soc \in {Zero, <<50, 1>>, Hundred} : TableSetInitialSOC(1, soc)
    \/ \E c \in Charges : TableUpdateVoltageCall(1, c[1], c[2], Zero)

NextTable == TableConstruct \/ TableCurve \/ TableStep

SpecTable == InitEmpty /\ [][NextTable]_vars

\* ------------------------------------------------------------------------
\* Properties of the table model
\* ------------------------------------------------------------------------
LiveTables == {o \in Objs : IsTable(o)}

\* the curve a stored (sorted) table describes: voltage strictly decreasing
\* while depth of discharge strictly increases
StrictlyDecreasingCurve(tbl) ==
    \A i \in 1..(Len(tbl) - 1) :
        Lt(tbl[i][1], tbl[i + 1][1]) /\ Gt(tbl[i][2], tbl[i + 1][2])

\* depths of discharge in [0, 100], on and next to the grid's breakpoints
CurveDODs ==
    {Zero, <<1, 10>>, <<25, 1>>, <<499, 10>>, <<50, 1>>, <<501, 10>>,
     <<75, 1>>, <<999, 10>>, Hundred}

\* C4: a table model whose voltage strictly decreases as DOD increases has a
\* calculate_voltage that never rises with DOD over [0, 100], across the
\* breakpoints and in the extrapolation segment past the last one
C4_CurveNonIncreasing ==
    \A o \in LiveTables :
        StrictlyDecreasingCurve(ParamsOf(o).voltage_table) =>
            \A d1 \in CurveDODs, d2 \in CurveDODs :
                Le(d1, d2) =>
                    Ge(TableCalculateVoltage(ParamsOf(o), obj[o], d1),
                       TableCalculateVoltage(ParamsOf(o), obj[o], d2))

\* a decreasing curve that ends before DOD 100 was read in its extrapolation
\* segment, below its last tabulated voltage
C4_Witness ==
    /\ ret.op = "calculate_voltage" /\ IsTable(ret.o)
    /\ LET tbl == ParamsOf(ret.o).voltage_table
       IN  /\ StrictlyDecreasingCurve(tbl)
           /\ Len(tbl) = 2
           /\ tbl[2][1] = <<50, 1>>
           /\ ret.DOD = <<75, 1>>
           /\ Lt(ret.value, tbl[2][2])

\* the segment the claim's words select for a clamped DOD d: the first row
\* whose DOD is at least d, the appended one when there is none
SegmentFor(tbl, d) ==
    LET K == {k \in 1..Len(tbl) : Ge(tbl[k][1], d)}
    IN  IF K = {} THEN Len(tbl) + 1
        ELSE CHOOSE k \in K : \A j \in K : k <= j

ClampDOD(DOD) == IF Lt(DOD, Zero) THEN Zero ELSE IF Gt(DOD, Hundred) THEN Hundred ELSE DOD

\* what calculate_voltage returned is max(0, slope * d + intercept) on the
\* segment of the clamped DOD
ReturnsSegmentValue ==
    (ret.op = "calculate_voltage") =>
        LET m == obj[ret.o]
            d == ClampDOD(ret.DOD)
            k == SegmentFor(ParamsOf(ret.o).voltage_table, d)
            v == Add(Mul(m.slopes[k], d), m.intercepts[k])
        IN  ret.value = IF Gt(v, Zero) THEN v ELSE Zero

\* calculate_voltage gives the tabulated voltage at every breakpoint
TabulatedAtBreakpoints(o) ==
    LET tbl == ParamsOf(o).voltage_table
    IN  \A k \in 1..Len(tbl) :
            TableCalculateVoltage(ParamsOf(o), obj[o], tbl[k][1]) = tbl[k][2]

\* ... and the point of the chord between two adjacent breakpoints
InterpolatesBetween(o) ==
    LET tbl == ParamsOf(o).voltage_table
    IN  \A k \in 1..(Len(tbl) - 1) : \A d \in CurveDODs :
            (Lt(tbl[k][1], d) /\ Lt(d, tbl[k + 1][1])) =>
                TableCalculateVoltage(ParamsOf(o), obj[o], d) =
                    Add(tbl[k][2],
                        Div(Mul(Sub(tbl[k + 1][2], tbl[k][2]), Sub(d, tbl[k][1])),
                            Sub(tbl[k + 1][1], tbl[k][1])))

ExampleTable == <<<<Zero, <<41, 10>>>>, <<Hundred, <<17, 5>>>>>>

ExampleValue ==
    \A o \in LiveTables :
        (ParamsOf(o).voltage_table = ExampleTable /\ ParamsOf(o).Vnom_default = <<19, 5>>) =>
            TableCalculateVoltage(ParamsOf(o), obj[o], <<50, 1>>) = <<15, 4>>

\* C5 (as amended): calculate_voltage clamps DOD to [0, 100], takes the first
\* segment whose breakpoint DOD is at least the clamped value (the appended
\* one when none is) and returns max(0, slope * DOD + intercept); for a table
\* whose voltage strictly decreases as DOD increases this is the tabulated
\* voltage at every breakpoint and the linear interpolation between adjacent
\* breakpoints, 3.75 at DOD 50 for [(0, 4.1), (100, 3.4)] with nominal 3.8
C5_SegmentsOfDecreasingCurve ==
    /\ ReturnsSegmentValue
    /\ ExampleValue
    /\ \A o \in LiveTables :
          StrictlyDecreasingCurve(ParamsOf(o).voltage_table) =>
              TabulatedAtBreakpoints(o) /\ InterpolatesBetween(o)

\* the example of the claim was read at DOD 50
C5_Witness ==
    /\ ret.op = "calculate_voltage" /\ IsTable(ret.o)
    /\ ParamsOf(ret.o).voltage_table = ExampleTable
    /\ ParamsOf(ret.o).Vnom_default = <<19, 5>>
    /\ ret.DOD = <<50, 1>>
    /\ ret.value = <<15, 4>>

\* C5 (as stated): the same, for every table that initializes
C5_SegmentsOfAnyTable ==
    /\ ReturnsSegmentValue
    /\ ExampleValue
    /\ \A o \in LiveTables : TabulatedAtBreakpoints(o) /\ InterpolatesBetween(o)

WellShaped(tbl) == Len(tbl) >= 2 /\ Len(tbl[1]) = 2

SomeIdenticalVoltages(tbl) ==
    \E i \in 1..Len(tbl), j \in 1..Len(tbl) : i # j /\ Eq(tbl[i][2], tbl[j][2])

\* C6: constructing a table model from a table in which two rows have the
\* same voltage (the sort makes them adjacent) raises an error whatever their
\* DODs are, so a table model that exists has pairwise distinct voltages
C6_IdenticalVoltagesRejected ==
    /\ (ret.op = "voltage_table_t" /\ WellShaped(ret.tbl) /\ SomeIdenticalVoltages(ret.tbl))
          => ret.err # ""
    /\ \A o \in LiveTables : ~SomeIdenticalVoltages(ParamsOf(o).voltage_table)

HasBelow(tbl, Vnom) == \E i \in 1..Len(tbl) : Lt(tbl[i][2], Vnom)

HasAbove(tbl, Vnom) == \E i \in 1..Len(tbl) : Gt(tbl[i][2], Vnom)

\* C7: a table model exists only with a voltage strictly below and one
\* strictly above the nominal voltage; the constructor raises an error for a
\* well-shaped table of distinct voltages that misses either, for an empty
\* table, for one of fewer than 2 rows and for one whose rows are not 2 wide
C7_NominalBracketed ==
    /\ \A o \in LiveTables :
          /\ HasBelow(ParamsOf(o).voltage_table, ParamsOf(o).Vnom_default)
          /\ HasAbove(ParamsOf(o).voltage_table, ParamsOf(o).Vnom_default)
    /\ (ret.op = "voltage_table_t") =>
          /\ (ret.err = "") =>
                /\ WellShaped(ret.tbl)
                /\ HasBelow(ret.tbl, ret.params.Vnom_default)
                /\ HasAbove(ret.tbl, ret.params.Vnom_default)
          /\ (Len(ret.tbl) = 0) => ret.err = "empty table"
          /\ (Len(ret.tbl) > 0 /\ ~WellShaped(ret.tbl)) =>
                ret.err = "2 columns and at least 2 rows"
          /\ (/\ WellShaped(ret.tbl) /\ ~SomeIdenticalVoltages(ret.tbl)
              /\ ~HasBelow(ret.tbl, ret.params.Vnom_default)) =>
                ret.err = "no voltage less than nominal"
          /\ (/\ WellShaped(ret.tbl) /\ ~SomeIdenticalVoltages(ret.tbl)
              /\ HasBelow(ret.tbl, ret.params.Vnom_default)
              /\ ~HasAbove(ret.tbl, ret.params.Vnom_default)) =>
                ret.err = "no voltage greater than nominal"

\* a table of distinct voltages, none above the nominal one, was refused
C7_Witness ==
    /\ ret.op = "voltage_table_t"
    /\ WellShaped(ret.tbl) /\ ~SomeIdenticalVoltages(ret.tbl)
    /\ HasBelow(ret.tbl, ret.params.Vnom_default)
    /\ ~HasAbove(ret.tbl, ret.params.Vnom_default)
    /\ ret.err = "no voltage greater than nominal"
    /\ ~Live(ret.o)

\* ------------------------------------------------------------------------
\* Spec: one model of any variant, stepped and asked for powers and currents
\* ------------------------------------------------------------------------
\* the electrochemical cell of the Tremblay parameter set
DynamicCell ==
    [Vfull |-> <<41, 10>>, Vexp |-> <<81, 20>>, Vnom |-> <<18, 5>>,
     Vcut |-> <<11, 4>>, Qfull |-> <<9, 4>>, Qexp |-> <<1, 5>>,
     Qnom |-> <<9, 5>>, C_rate |-> One]

ThreeRowTable ==
    <<<<Zero, <<41, 10>>>>, <<<<50, 1>>, <<19, 5>>>>, <<Hundred, <<17, 5>>>>>>

\* temperatures: 25 C for updateVoltage, 298.15 K for the queries
Celsius == <<25, 1>>

Kelvin == Add(Celsius, Kelvin0)

Construct ==
    /\ ~Live(1) /\ ret.err = ""
    /\ \/ \E tbl \in {ExampleTable, ThreeRowTable} :
             TableNew(1, 1, 2, 1, <<18, 5>>, tbl, <<1, 10>>, One)
       \/ \E n \in {1, 2} :
             DynamicNew(1, 1, n, n, <<18, 5>>, DynamicCell, <<1, 20>>, One)
       \/ VanadiumNew(1, 1, 2, 1, <<7, 5>>, <<1, 1000>>, One)

Step ==
    \E c \in Charges :
        \/ TableUpdateVoltageCall(1, c[1], c[2], Zero)
        \/ DynamicUpdateVoltageCall(1, c[1], c[2], Zero)
        \/ VanadiumUpdateVoltageCall(1, c[1], c[2], Zero, Celsius)

MaxPower ==
    \E c \in Charges :
        \/ TableCalculateMaxChargeWCall(1, c[1], c[2])
        \/ TableCalculateMaxDischargeWCall(1, c[1], c[2])
        \/ DynamicCalculateMaxChargeWCall(1, c[1], c[2])
        \/ DynamicCalculateMaxDischargeWCall(1, c[1], c[2])
        \/ VanadiumCalculateMaxChargeWCall(1, c[1], c[2], Kelvin)
        \/ VanadiumCalculateMaxDischargeWCall(1, c[1], c[2], Kelvin)

\* a requested power, or the maximum just computed for the same charge
Target ==
    \/ \E c \in Charges, P \in Powers :
          \/ TableCalculateCurrentForTargetWCall(1, P, c[1], c[2])
          \/ DynamicCalculateCurrentForTargetWCall(1, P, c[1], c[2])
          \/ VanadiumCalculateCurrentForTargetWCall(1, P, c[1], c[2], Kelvin)
    \/ \E P \in LastPower :
          \/ TableCalculateCurrentForTargetWCall(1, P, ret.q, ret.qmax)
          \/ DynamicCalculateCurrentForTargetWCall(1, P, ret.q, ret.qmax)
          \/ VanadiumCalculateCurrentForTargetWCall(1, P, ret.q, ret.qmax, Kelvin)

\* set_initial_SOC at half charge
Seed ==
    \/ TableSetInitialSOC(1, <<50, 1>>)
    \/ DynamicSetInitialSOCCall(1, <<50, 1>>)
    \/ VanadiumSetInitialSOCCall(1, <<50, 1>>)

\* calculate_voltage_for_current at rest and at 1 A
VoltageForCurrent ==
    \E c \in Charges, I \in {Zero, One} :
        \/ TableCalculateVoltageForCurrentCall(1, I, c[1], c[2])
        \/ DynamicCalculateVoltageForCurrentCall(1, I, c[1], c[2])
        \/ VanadiumCalculateVoltageForCurrentCall(1, I, c[1], c[2], Kelvin)

Init == InitEmpty

Next == Construct \/ Step \/ Seed \/ VoltageForCurrent \/ MaxPower \/ Target

Spec == Init /\ [][Next]_vars

\* ------------------------------------------------------------------------
\* Properties of calculate_current_for_target_w
\* ------------------------------------------------------------------------
IsTarget(r) == r.op = "calculate_current_for_target_w"

\* C1: in every variant calculate_current_for_target_w with P_watts = 0
\* returns exactly 0, runs no solver and leaves every model and block as it was
C1_ZeroPowerZeroCurrent ==
    [][(IsTarget(ret') /\ Eq(ret'.P, Zero)) =>
          /\ ret'.value = Zero
          /\ ret'.solver_calls = 0
          /\ obj' = obj
          /\ heap' = heap]_vars

\* a model with a solver was asked for zero power after its voltage had moved
C1_Witness ==
    /\ IsTarget(ret) /\ Eq(ret.P, Zero)
    /\ IsDynamic(ret.o)
    /\ obj[ret.o].state.cell_voltage # ParamsOf(ret.o).dynamic.Vfull
    /\ ret.value = Zero /\ ret.solver_calls = 0

\* the maxima of the direction of the last request: every [power, current]
\* calculate_max_charge_w (P < 0) or calculate_max_discharge_w (P > 0) can
\* return for the same q and qmax
MaximaOfRequest ==
    LET p == ParamsOf(ret.o)
        m == obj[ret.o]
        charge == Lt(ret.P, Zero)
    IN  IF IsTable(ret.o)
        THEN {IF charge THEN TableCalculateMaxChargeW(p, m, ret.q, ret.qmax)
              ELSE TableCalculateMaxDischargeW(p, m, ret.q, ret.qmax)}
        ELSE IF IsDynamic(ret.o)
        THEN {IF charge THEN DynamicCalculateMaxChargeW(p, m, ret.q, ret.qmax)
              ELSE DynamicCalculateMaxDischargeW(p, m, ret.q, ret.qmax)}
        ELSE IF charge
        THEN {VanadiumCalculateMaxChargeW(p, m, ret.q, ret.qmax, ret.T)}
        ELSE VanadiumCalculateMaxDischargeW(p, m, ret.q, ret.qmax, ret.T)

\* C2: in every variant and both directions a request of at least the maximum
\* power of its direction returns the maximum current of that direction
C2_ClampedToMaxPower ==
    (IsTarget(ret) /\ ~Eq(ret.P, Zero)) =>
        \A mx \in MaximaOfRequest :
            Ge(Fabs(ret.P), Fabs(mx.power)) =>
                \E my \in MaximaOfRequest : ret.value = my.current

\* C3: the table model asked for the power calculate_max_discharge_w returns
\* for q and qmax (P > 0) returns the current calculate_max_discharge_w returns
C3_TableRoundTrip ==
    (IsTarget(ret) /\ IsTable(ret.o) /\ Gt(ret.P, Zero)) =>
        \A mx \in MaximaOfRequest :
            ret.P = mx.power => ret.value = mx.current

\* the maximum discharge power of a half-charged table model was asked for
C3_Witness ==
    /\ IsTarget(ret) /\ IsTable(ret.o) /\ Gt(ret.P, Zero)
    /\ ret.q = <<5, 1>>
    /\ \E mx \in MaximaOfRequest :
          ret.P = mx.power /\ ret.value = mx.current /\ Gt(ret.value, Zero)

\* ------------------------------------------------------------------------
\* SpecDynamic: one voltage_dynamic_t, built from every quadruple of voltages
\* over a grid, then stepped
\* ------------------------------------------------------------------------
DynamicVolts == {<<11, 4>>, <<18, 5>>, <<81, 20>>, <<41, 10>>}

DynamicResistances == {Zero, <<1, 20>>}

DynamicCapacities == {<<9, 5>>, <<9, 4>>}

DynamicRates == {<<1, 2>>, One}

DynamicCurrents == {Zero, One}

\* the exception of a constructor ends the run
DynamicConstruct ==
    /\ ~Live(1) /\ ret.err = ""
    /\ \E Vfull \in DynamicVolts, Vexp \in DynamicVolts, Vnom \in DynamicVolts,
          Vcut \in DynamicVolts, Qfull \in DynamicCapacities,
          C_rate \in DynamicRates, R \in DynamicResistances :
          DynamicNew(1, 1, 1, 1, Vnom,
                     [DynamicCell EXCEPT !.Vfull = Vfull, !.Vexp = Vexp,
                                         !.Vnom = Vnom, !.Vcut = Vcut,
                                         !.Qfull = Qfull, !.C_rate = C_rate],
                     R, One)

DynamicStep ==
    \/ \E c \in Charges, I \in DynamicCurrents :
          DynamicUpdateVoltageCall(1, c[1], c[2], I)
    \/ \E init_soc \in {<<50, 1>>, Hundred} : DynamicSetInitialSOCCall(1, init_soc)
    \/ \E c \in Charges : DynamicCalculateMaxDischargeWCall(1, c[1], c[2])

NextDynamic == DynamicConstruct \/ DynamicStep

SpecDynamic == InitEmpty /\ [][NextDynamic]_vars

\* the last call was a constructor of the Dynamic model
DynamicConstructed == ret.op = "voltage_dynamic_t"

StrictlyOrdered(d) == Gt(d.Vfull, d.Vexp) /\ Gt(d.Vexp, d.Vnom) /\ Gt(d.Vnom, d.Vcut)

\* C8: the constructor of a Dynamic model raises on every quadruple that is
\* not Vfull > Vexp > Vnom > Vcut, two equal neighbours included
C8_OrderingViolationRaises ==
    (DynamicConstructed /\ ~StrictlyOrdered(ret.params.dynamic)) => ret.err # ""

\* updateVoltage was the last call, on a full battery with no current
FullChargeNoCurrent ==
    /\ ret.op = "updateVoltage" /\ IsDynamic(ret.o)
    /\ ret.q = ret.qmax /\ Gt(ret.qmax, Zero) /\ Eq(ret.I, Zero)

\* the voltages of the properties are compared to the millivolt
VoltageEps == <<1, 1000>>

Near(a, b) == Le(Fabs(Sub(a, b)), VoltageEps)

\* calculate_Qfull_mod(qmax) of the last call is a capacity: finite, not zero
ModifiedCapacityDefined ==
    With(CalculateQfullMod(ParamsOf(ret.o), obj[ret.o],
                           Div(ret.qmax, I2D(ParamsOf(ret.o).num_strings))),
         LAMBDA Q_cell_mod : IsFinite(Q_cell_mod) /\ ~Eq(Q_cell_mod, Zero))

\* every strictly ordered quadruple has a modified capacity
OrderedHaveModifiedCapacity ==
    (FullChargeNoCurrent /\ StrictlyOrdered(ParamsOf(ret.o).dynamic)) =>
        ModifiedCapacityDefined

ScenarioSeededFull ==
    /\ ret.op = "set_initial_SOC" /\ IsDynamic(ret.o)
    /\ ret.q = ret.qmax
    /\ ParamsOf(ret.o).dynamic = DynamicCell
    /\ ParamsOf(ret.o).resistance = <<1, 20>>
    /\ ParamsOf(ret.o).num_cells_series = 1
    /\ ParamsOf(ret.o).num_strings = 1

WeakCell == [DynamicCell EXCEPT !.Qfull = <<3, 2>>]

SharedCells == {DynamicCell, [DynamicCell EXCEPT !.Vfull = <<21, 5>>], WeakCell}

SharedParams ==
    {[BaseParams("MODEL", 1, 1, <<18, 5>>, One)
         EXCEPT !.resistance = <<1, 20>>, !.dynamic = d] : d \in SharedCells}

SharedMake == \E b \in Blocks, p \in SharedParams : MakeParams(b, p)

SharedConstruct ==
    \E o \in Objs, b \in Blocks :
        \/ DynamicNewShared(o, b)
        \/ \E d \in SharedCells :
              DynamicNew(o, b, 1, 1, <<18, 5>>, d, <<1, 20>>, One)

SharedCopy == \E o \in Objs, rhs \in Objs, b \in Blocks : Copy(o, rhs, b)

SharedAssign == \E o \in Objs, rhs \in Objs : Assign(o, rhs)

NextShared == SharedMake \/ SharedConstruct \/ SharedCopy \/ SharedAssign

SpecShared == InitEmpty /\ [][NextShared]_vars

\* the members _A, _B0, _K, _E0 of o are those of parameter_compute() on the
\* block o points to now, and none is negative
DerivedConstantsHold(o) ==
    With(ParameterCompute(ParamsOf(o)), LAMBDA pc :
        /\ obj[o].A = pc.A /\ obj[o].B0 = pc.B0
        /\ obj[o].K = pc.K /\ obj[o].E0 = pc.E0
        /\ Ge(obj[o].A, Zero) /\ Ge(obj[o].B0, Zero)
        /\ Ge(obj[o].K, Zero) /\ Ge(obj[o].E0, Zero))

\* C9: every Dynamic model that exists holds the derived constants of its
\* current parameters, all non-negative, and a constructor whose parameters
\* make one negative raises
C9_DerivedConstantsOfCurrentParameters ==
    /\ \A o \in Objs : IsDynamic(o) => DerivedConstantsHold(o)
    /\ (DynamicConstructed /\ ParameterCompute(ret.params).err # "") => ret.err # ""

\* ------------------------------------------------------------------------
\* SpecVanadium: one vanadium redox model, stepped and queried
\* ------------------------------------------------------------------------
VanadiumVnoms == {<<7, 5>>, <<1, 10>>}

\* per-string charges of a 10 Ah string: empty, 0.05% full, half full, full
VanadiumCharges == {Zero, <<1, 200>>, <<5, 1>>, <<10, 1>>}

VanadiumQmax == <<10, 1>>

VanadiumCurrents == {Zero, One}

VanadiumCelsius == {Celsius, <<60, 1>>}

VanadiumConstruct ==
    /\ ~Live(1) /\ ret.err = ""
    /\ \E cells \in {1, 2}, strings \in {1, 2}, Vnom \in VanadiumVnoms :
          VanadiumNew(1, 1, cells, strings, Vnom, <<1, 1000>>, One)

\* a stack of n strings is handed n times the per-string charge and current
VanadiumStep ==
    \/ \E q \in VanadiumCharges, I \in VanadiumCurrents, temp \in VanadiumCelsius :
          /\ Live(1)
          /\ \E n \in {I2D(ParamsOf(1).num_strings)} :
                VanadiumUpdateVoltageCall(1, Mul(q, n), Mul(VanadiumQmax, n),
                                          Mul(I, n), temp)
    \/ \E init_soc \in {Zero, <<50, 1>>, Hundred} :
          VanadiumSetInitialSOCCall(1, init_soc)

NextVanadium == VanadiumConstruct \/ VanadiumStep

SpecVanadium == InitEmpty /\ [][NextVanadium]_vars

VanadiumStepped ==
    /\ ret.op \in {"updateVoltage", "set_initial_SOC"}
    /\ IsVanadium(ret.o)
    /\ Gt(ret.qmax, Zero)

\* the state of charge the last step put in the logarithm
SOCInLogarithm ==
    LET n == I2D(ParamsOf(ret.o).num_strings)
    IN  VanadiumSOCUse(Div(ret.q, n), Div(ret.qmax, n))

\* C12: the state of charge inside the logarithm of the vanadium model lies in
\* [1e-3, 1 - tolerance] for every q0 and every qmax > 0, so that the stepped
\* voltage is finite
C12_LogarithmSOCClamped ==
    VanadiumStepped =>
        /\ Ge(SOCInLogarithm, SOCFloor)
        /\ Le(SOCInLogarithm, Sub(One, tolerance))
        /\ IsFinite(obj[ret.o].state.cell_voltage)

\* C13: with a non-negative nominal voltage, cell_voltage is never negative:
\* after construction, after set_initial_SOC and after every updateVoltage
\* with q in [0, qmax]
C13_CellVoltageNonNegative ==
    \A o \in Objs :
        Live(o) /\ Ge(ParamsOf(o).Vnom_default, Zero) =>
            Ge(obj[o].state.cell_voltage, Zero)

\* ------------------------------------------------------------------------
\* Queries and the state they are asked of (Spec)
\* ------------------------------------------------------------------------
QueryOps ==
    {"calculate_voltage_for_current", "calculate_max_charge_w",
     "calculate_max_discharge_w", "calculate_current_for_target_w"}

StateChangingOps == {"set_initial_SOC", "updateVoltage", "operator="}

\* a call of one of the four queries leaves every instance and every block
QueryLeavesModel ==
    ret'.op \in QueryOps => obj' = obj /\ heap' = heap

\* the cell_voltage of an instance that exists changes only in the three calls
OnlyStepsChangeCellVoltage ==
    \A o \in Objs :
        (Live(o) /\ obj'[o].kind = obj[o].kind
           /\ obj'[o].state.cell_voltage # obj[o].state.cell_voltage)
        => ret'.op \in StateChangingOps

\* C14: calculate_voltage_for_current, calculate_max_charge_w,
\* calculate_max_discharge_w and calculate_current_for_target_w leave
\* cell_voltage, Q_full_mod and the parameters of every variant unchanged; only
\* set_initial_SOC, updateVoltage and assignment change cell_voltage
C14_QueriesLeaveStateAndParameters ==
    [][QueryLeavesModel /\ OnlyStepsChangeCellVoltage]_vars

\* a query answered by a model that was stepped away from its nominal voltage
C14_Witness ==
    /\ ret.op \in QueryOps /\ ret.o = 1 /\ Live(1)
    /\ obj[1].state.cell_voltage # ParamsOf(1).Vnom_default
    /\ ~IsTable(1)
    /\ ret.op = "calculate_current_for_target_w" => ret.solver_calls > 0

\* ------------------------------------------------------------------------
\* SpecCopies: a model of each variant, its copies, and steps on any of them
\* ------------------------------------------------------------------------
\* instances are made in the order of their ids
NextObj(o) == ~Live(o) /\ \A k \in Objs : k < o => Live(k)

\* make_shared takes the first block that is free
FirstFresh(b) == b \in FreshBlocks /\ \A k \in FreshBlocks : b <= k

CopiesConstruct ==
    /\ ~Live(1)
    /\ \/ TableNew(1, 1, 1, 1, <<18, 5>>, ThreeRowTable, <<1, 10>>, One)
       \/ DynamicNew(1, 1, 1, 1, <<18, 5>>, DynamicCell, <<1, 20>>, One)
       \/ VanadiumNew(1, 1, 1, 1, <<7, 5>>, <<1, 1000>>, One)

CopiesCopy ==
    \E o \in Objs, rhs \in Objs, b \in Blocks :
        NextObj(o) /\ FirstFresh(b) /\ Copy(o, rhs, b)

CopiesStep ==
    \E o \in Objs :
        \/ \E c \in Charges :
              \/ TableUpdateVoltageCall(o, c[1], c[2], Zero)
              \/ DynamicUpdateVoltageCall(o, c[1], c[2], Zero)
              \/ VanadiumUpdateVoltageCall(o, c[1], c[2], Zero, Celsius)
        \/ TableSetInitialSOC(o, <<50, 1>>)
        \/ DynamicSetInitialSOCCall(o, <<50, 1>>)
        \/ VanadiumSetInitialSOCCall(o, <<50, 1>>)

NextCopies == CopiesConstruct \/ CopiesCopy \/ CopiesStep

SpecCopies == InitEmpty /\ [][NextCopies]_vars

StepOps == {"set_initial_SOC", "updateVoltage"}

\* the copy constructor leaves a new instance on a block no other instance
\* holds, both equal in value to those of some instance that is left as it was
CopyIsEqualAndSeparate ==
    ret'.op = "copy" =>
        LET o == ret'.o
        IN  /\ ~Live(o) /\ obj'[o].kind # "none"
            /\ \A k \in Objs \ {o} : Live(k) => obj[k].params # obj'[o].params
            /\ \E rhs \in Objs \ {o} :
                  /\ Live(rhs)
                  /\ obj'[rhs] = obj[rhs]
                  /\ heap'[obj[rhs].params] = heap[obj[rhs].params]
                  /\ heap'[obj'[o].params] = heap[obj[rhs].params]
                  /\ [obj'[o] EXCEPT !.params = obj[rhs].params] = obj[rhs]

\* a step of one instance leaves every other instance and its block
StepLeavesOthers ==
    ret'.op \in StepOps =>
        \A k \in Objs \ {ret'.o} :
            /\ obj'[k] = obj[k]
            /\ Live(k) => heap'[obj[k].params] = heap[obj[k].params]

\* C15: a copy (or clone) has a state and a parameter block of its own, equal
\* in value to the original's when it is made, slopes and intercepts or derived
\* constants included; a later updateVoltage or set_initial_SOC on one of the
\* two leaves the cell_voltage and the parameters of the other
C15_CopiesAreIndependent ==
    [][CopyIsEqualAndSeparate /\ StepLeavesOthers]_vars

\* the original stepped away from its copy, or the copy from the original
C15_Witness ==
    /\ Live(1) /\ Live(2)
    /\ ret.op \in StepOps
    /\ obj[1].params # obj[2].params
    /\ ParamsOf(1) = ParamsOf(2)
    /\ obj[1].state.cell_voltage # obj[2].state.cell_voltage
    /\ obj[1].state.cell_voltage # ParamsOf(1).Vnom_default
    /\ obj[2].state.cell_voltage # ParamsOf(2).Vnom_default

\* ------------------------------------------------------------------------
\* SpecHolders: instances of the three variants on blocks of their own and on
\* blocks a caller made, assigned, stepped and queried
\* ------------------------------------------------------------------------
\* a caller's table, its rows not in the order of their voltages
UnsortedTable ==
    <<<<<<50, 1>>, <<19, 5>>>>, <<Zero, <<41, 10>>>>, <<Hundred, <<17, 5>>>>>>

HolderTableParams ==
    [BaseParams("TABLE", 1, 1, <<18, 5>>, One)
        EXCEPT !.resistance = <<1, 10>>, !.voltage_table = UnsortedTable]

HolderDynamicParams ==
    [BaseParams("MODEL", 1, 1, <<18, 5>>, One)
        EXCEPT !.resistance = <<1, 20>>, !.dynamic = DynamicCell]

HolderVanadiumParams ==
    [BaseParams("MODEL", 1, 1, <<7, 5>>, One) EXCEPT !.resistance = <<1, 1000>>]

HoldersMake ==
    \E b \in Blocks,
       p \in {HolderTableParams, HolderDynamicParams, HolderVanadiumParams} :
          FirstFresh(b) /\ MakeParams(b, p)

\* the instances of one run are of one variant
OneVariant(o) == \A k \in Objs : Live(k) => obj'[o].kind = obj[k].kind

HoldersConstructShared ==
    \E o \in Objs, b \in Blocks :
        /\ NextObj(o)
        /\ \/ heap[b] = HolderTableParams /\ TableNewShared(o, b)
           \/ heap[b] = [HolderTableParams EXCEPT !.voltage_table = ThreeRowTable]
                 /\ TableNewShared(o, b)
           \/ heap[b] = HolderDynamicParams /\ DynamicNewShared(o, b)
           \/ heap[b] = HolderVanadiumParams /\ VanadiumNewShared(o, b)
        /\ OneVariant(o)

HoldersConstruct ==
    \E o \in Objs, b \in Blocks :
        /\ NextObj(o) /\ FirstFresh(b)
        /\ \/ TableNew(o, b, 1, 1, <<18, 5>>, ExampleTable, <<1, 10>>, One)
           \/ DynamicNew(o, b, 1, 1, <<18, 5>>, WeakCell, <<1, 20>>, One)
           \/ VanadiumNew(o, b, 1, 1, <<6, 5>>, <<1, 1000>>, One)
        /\ OneVariant(o)

HoldersAssign == \E o \in Objs, rhs \in Objs : Assign(o, rhs)

HoldersStep ==
    \E o \in Objs :
        \/ TableUpdateVoltageCall(o, <<5, 1>>, <<10, 1>>, Zero)
        \/ DynamicUpdateVoltageCall(o, <<5, 1>>, <<10, 1>>, Zero)
        \/ VanadiumUpdateVoltageCall(o, <<5, 1>>, <<10, 1>>, Zero, Celsius)
        \/ TableSetInitialSOC(o, Hundred)
        \/ DynamicSetInitialSOCCall(o, Hundred)
        \/ VanadiumSetInitialSOCCall(o, Hundred)

HoldersQuery ==
    \E o \in Objs :
        \/ TableCalculateVoltageForCurrentCall(o, One, <<5, 1>>, <<10, 1>>)
        \/ DynamicCalculateVoltageForCurrentCall(o, One, <<5, 1>>, <<10, 1>>)
        \/ VanadiumCalculateVoltageForCurrentCall(o, One, <<5, 1>>, <<10, 1>>, Kelvin)
        \/ TableCalculateMaxChargeWCall(o, <<5, 1>>, <<10, 1>>)
        \/ DynamicCalculateMaxChargeWCall(o, <<5, 1>>, <<10, 1>>)
        \/ VanadiumCalculateMaxChargeWCall(o, <<5, 1>>, <<10, 1>>, Kelvin)

NextHolders ==
    \/ HoldersMake
    \/ HoldersConstructShared
    \/ HoldersConstruct
    \/ HoldersAssign
    \/ HoldersStep
    \/ HoldersQuery

SpecHolders == InitEmpty /\ [][NextHolders]_vars

HoldersTypeOK == \A o \in Objs : Live(o) => heap[obj[o].params] # FreeBlock

\* the instances whose `params` points to block b
Holders(b) == {o \in Objs : Live(o) /\ obj[o].params = b}

\* a block that exists before a call and that a holder other than the
\* instance called observes: the caller that made it and hands it to a
\* constructor, or, in an assignment, a second instance constructed from it
ObservedBlock(b) ==
    /\ heap[b] # FreeBlock
    /\ ret'.op = "operator=" => Cardinality(Holders(b)) >= 2

\* C16: no call of the voltage core, be it a constructor, set_initial_SOC,
\* updateVoltage, a query or an assignment to an instance, changes a field of
\* a parameter block that was handed in as a shared reference, the order of
\* the rows of voltage_table included
C16_SharedBlockNeverMutated ==
    [][ret'.op # "make_shared" =>
          \A b \in Blocks : ObservedBlock(b) => heap'[b] = heap[b]]_vars

\* ------------------------------------------------------------------------
\* The call sites of the root finder (Spec)
\* ------------------------------------------------------------------------
\* the last call ran the solver
SolverCalled == ret.solver_calls > 0 /\ Live(ret.o)

\* what the call site returns for each iterate the solver can end on
DynamicTargetReturns ==
    LET p == ParamsOf(ret.o)
        m == obj[ret.o]
        direction == IF Gt(ret.P, Zero) THEN One ELSE <<-1, 1>>
        x0 == DynamicGuess(p, m, DynamicSolverSetup(p, m, ret.P, ret.q, ret.qmax))
    IN  {Mul(Mul(x, I2D(p.num_strings)), direction) : x \in NewtonIterates(x0)}

VanadiumTargetReturns ==
    LET p == ParamsOf(ret.o)
        m == obj[ret.o]
        sv == [solver_power |-> Div(ret.P, I2D(p.num_cells_series * p.num_strings))]
    IN  {Mul(x, I2D(p.num_strings)) : x \in NewtonIterates(VanadiumGuess(p, m, sv))}

VanadiumMaxDischargeReturns ==
    LET p == ParamsOf(ret.o)
        n == I2D(p.num_strings)
        x0 == Div(Sub(Div(ret.q, n), tolerance), p.dt_hr)
    IN  {Mul(x, n) : x \in NewtonIterates(x0) \cup {Zero}}

ReturnsFinalIterate ==
    /\ ret.op = "calculate_current_for_target_w" /\ IsDynamic(ret.o)
          => ret.value \in DynamicTargetReturns
    /\ ret.op = "calculate_current_for_target_w" /\ IsVanadium(ret.o)
          => ret.value \in VanadiumTargetReturns
    /\ ret.op = "calculate_max_discharge_w" /\ IsVanadium(ret.o)
          => ret.current \in VanadiumMaxDischargeReturns

\* C17: at the three call sites of the root finder the caller returns, without
\* an error, a result computed from the solver's final iterate, whether the
\* run converged or not
C17_SolverFlagNotConsulted ==
    SolverCalled => ret.err = "" /\ ReturnsFinalIterate

\* a run that did not converge and whose iterate was returned
C17_Witness ==
    /\ SolverCalled /\ ~ret.converged /\ ret.err = ""
    /\ IsDynamic(ret.o) /\ ret.op = "calculate_current_for_target_w"
    /\ IsFinite(ret.value) /\ ~Eq(ret.value, Zero)

\* ------------------------------------------------------------------------
\* dispatch_resilience (lib_resilience.cpp): one battery dispatch per outage
\* start, kept among the instances by id
\* ------------------------------------------------------------------------
\* BatteryPower as the resilience dispatch reads and writes it
NoPower ==
    [powerSystem |-> Zero, powerPVInverterDraw |-> Zero, powerCritLoad |-> Zero,
     powerSystemClipped |-> Zero, voltageSystem |-> Zero, Tdry_C |-> Zero,
     powerBatteryToLoad |-> Zero, powerSystemToLoad |-> Zero,
     powerFuelCellToLoad |-> Zero, powerCritLoadUnmet |-> Zero,
     isOutageStep |-> FALSE,
     canClipCharge |-> FALSE, canSystemCharge |-> FALSE,
     canGridCharge |-> TRUE, canDischarge |-> FALSE,
     stateOfChargeMin |-> Zero, stateOfChargeMax |-> Zero]

\* BatteryPower::reset(): the power flows of the last step are cleared, the
\* settings of the dispatch stay
BatteryPowerReset(bp) ==
    [bp EXCEPT !.powerSystem = Zero, !.powerPVInverterDraw = Zero,
               !.powerCritLoad = Zero, !.powerSystemClipped = Zero,
               !.voltageSystem = Zero,
               !.powerBatteryToLoad = Zero, !.powerSystemToLoad = Zero,
               !.powerFuelCellToLoad = Zero, !.powerCritLoadUnmet = Zero]

\* dispatch_ac_outage_step / dispatch_dc_outage_step: the flows a step can
\* leave. The system serves what it can of the critical load; of the rest the
\* battery serves all, half or nothing, and what is left is unmet.
DispatchOutcomes(bp) ==
    LET load == bp.powerCritLoad
        fromSystem == Fmin(Fmax(bp.powerSystem, Zero), load)
        rest == Sub(load, fromSystem)
    IN  {[bp EXCEPT !.powerSystemToLoad = fromSystem,
                    !.powerBatteryToLoad = b,
                    !.powerCritLoadUnmet = Sub(rest, b)] :
            b \in {rest, Mul(rest, <<1, 2>>), Zero}}

IsDispatch(o) == obj[o].kind = "dispatch"

\* the last call on a dispatch, with the bool it returned
DispatchCall(op, o, survived) == [survived |-> survived] @@ Call(op, o)

\* the members dispatch_resilience(orig, start_index) leaves, for an orig of
\* the given connection and _min_outage_soc; steps_run and steps_survived
\* count the calls that ran a step and those that returned true
DispatchResilience(connection, start_index, min_outage_soc) ==
    [kind |-> "dispatch", connection |-> connection,
     start_outage_index |-> start_index,
     current_outage_index |-> start_index,
     met_loads_kw |-> Zero,
     steps_run |-> 0,
     steps_survived |-> 0,
     batteryPower |->
         [NoPower EXCEPT !.canClipCharge = TRUE, !.canSystemCharge = TRUE,
                         !.canGridCharge = FALSE, !.canDischarge = TRUE,
                         !.stateOfChargeMin = min_outage_soc,
                         !.stateOfChargeMax = Hundred]]

\* dispatch_resilience(orig, start_index)
DispatchNew(o, connection, start_index, min_outage_soc) ==
    /\ ~Live(o)
    /\ obj' = [obj EXCEPT ![o] =
                  DispatchResilience(connection, start_index, min_outage_soc)]
    /\ ret' = DispatchCall("dispatch_resilience", o, FALSE)
    /\ UNCHANGED heap

\* the end of an outage step that moves the outage index on whether or not
\* the critical load was met
OutageStepDoneCountingAll(o, op, bp) ==
    LET met_load == Add(Add(bp.powerBatteryToLoad, bp.powerSystemToLoad),
                        bp.powerFuelCellToLoad)
        survived == Lt(bp.powerCritLoadUnmet, tolerance)
    IN  /\ obj' = [obj EXCEPT
              ![o].batteryPower = bp,
              ![o].steps_run = @ + 1,
              ![o].steps_survived = IF survived THEN @ + 1 ELSE @,
              ![o].met_loads_kw = Add(@, met_load),
              ![o].current_outage_index = @ + 1]
        /\ ret' = DispatchCall(op, o, survived)

\* the end of run_outage_step_ac and run_outage_step_dc on the dispatch d,
\* after the dispatch step left bp: the dispatch as it is then and the bool
\* returned
OutageStepEnd(d, bp) ==
    LET met_load == Add(Add(bp.powerBatteryToLoad, bp.powerSystemToLoad),
                        bp.powerFuelCellToLoad)
        survived == Lt(bp.powerCritLoadUnmet, tolerance)
    IN  [d |-> [d EXCEPT
                  !.batteryPower = bp,
                  !.steps_run = @ + 1,
                  !.steps_survived = IF survived THEN @ + 1 ELSE @,
                  !.met_loads_kw = Add(@, met_load),
                  !.current_outage_index = IF survived THEN @ + 1 ELSE @],
         survived |-> survived]

\* the end of run_outage_step_ac and run_outage_step_dc on the instance o
OutageStepDone(o, op, bp) ==
    \E r \in {OutageStepEnd(obj[o], bp)} :
        /\ obj' = [obj EXCEPT ![o] = r.d]
        /\ ret' = DispatchCall(op, o, r.survived)

\* lines 65-75 of run_outage_step_ac: the battery power record handed to the
\* dispatch step
OutageInputsAC(bp, crit_load_kwac, pv_kwac) ==
    LET bp0 == BatteryPowerReset(bp)
        bp1 == IF Lt(pv_kwac, Zero)
               THEN [bp0 EXCEPT !.powerPVInverterDraw = bp0.powerSystem,
                                !.powerSystem = Zero]
               ELSE [bp0 EXCEPT !.powerPVInverterDraw = Zero,
                                !.powerSystem = pv_kwac]
    IN  [bp1 EXCEPT !.powerCritLoad = crit_load_kwac, !.isOutageStep = TRUE]

\* lines 91-97 of run_outage_step_dc
OutageInputsDC(bp, crit_load_kwac, pv_kwdc, V_pv, pv_clipped, tdry) ==
    [BatteryPowerReset(bp) EXCEPT !.powerSystem = pv_kwdc,
                                  !.powerCritLoad = crit_load_kwac,
                                  !.voltageSystem = V_pv,
                                  !.powerSystemClipped = pv_clipped,
                                  !.Tdry_C = tdry,
                                  !.isOutageStep = TRUE]

\* run_outage_step_ac with the battery power reset before the connection is
\* looked at
RunOutageStepACResetFirst(o, crit_load_kwac, pv_kwac) ==
    /\ IsDispatch(o)
    /\ IF obj[o].connection # "AC"
       THEN /\ obj' = [obj EXCEPT ![o].batteryPower = BatteryPowerReset(@)]
            /\ ret' = [DispatchCall("run_outage_step_ac", o, FALSE) EXCEPT
                          !.err = "called for battery with DC connection"]
       ELSE LET bp0 == BatteryPowerReset(obj[o].batteryPower)
                bp1 == IF Lt(pv_kwac, Zero)
                       THEN [bp0 EXCEPT !.powerPVInverterDraw = bp0.powerSystem,
                                        !.powerSystem = Zero]
                       ELSE [bp0 EXCEPT !.powerPVInverterDraw = Zero,
                                        !.powerSystem = pv_kwac]
                bp2 == [bp1 EXCEPT !.powerCritLoad = crit_load_kwac,
                                   !.isOutageStep = TRUE]
            IN  \E bp \in DispatchOutcomes(bp2) :
                   OutageStepDone(o, "run_outage_step_ac", bp)
    /\ UNCHANGED heap

\* dispatch_resilience::get_indices_survived()
GetIndicesSurvived(o) == obj[o].current_outage_index - obj[o].start_outage_index

\* dispatch_resilience::get_met_loads()
GetMetLoads(o) == obj[o].met_loads_kw

\* dispatch_resilience::run_outage_step_ac(crit_load_kwac, pv_kwac)
RunOutageStepAC(o, crit_load_kwac, pv_kwac) ==
    /\ IsDispatch(o)
    /\ IF obj[o].connection # "AC"
       THEN /\ ret' = [DispatchCall("run_outage_step_ac", o, FALSE) EXCEPT
                          !.err = "called for battery with DC connection"]
            /\ UNCHANGED obj
       ELSE \E bp \in DispatchOutcomes(
                         OutageInputsAC(obj[o].batteryPower, crit_load_kwac, pv_kwac)) :
               OutageStepDone(o, "run_outage_step_ac", bp)
    /\ UNCHANGED heap

\* dispatch_resilience::run_outage_step_dc(crit_load_kwac, pv_kwdc, V_pv,
\* pv_clipped, tdry)
RunOutageStepDC(o, crit_load_kwac, pv_kwdc, V_pv, pv_clipped, tdry) ==
    /\ IsDispatch(o)
    /\ IF obj[o].connection # "DC"
       THEN /\ ret' = [DispatchCall("run_outage_step_dc", o, FALSE) EXCEPT
                          !.err = "called for battery with AC connection"]
            /\ UNCHANGED obj
       ELSE \E bp \in DispatchOutcomes(
                         OutageInputsDC(obj[o].batteryPower, crit_load_kwac, pv_kwdc,
                                        V_pv, pv_clipped, tdry)) :
               OutageStepDone(o, "run_outage_step_dc", bp)
    /\ UNCHANGED heap

\* ------------------------------------------------------------------------
\* SpecResilience: one resilience dispatch stepped through an outage
\* ------------------------------------------------------------------------
\* steps of an outage a run follows
MaxOutageSteps == 3

CritLoads == {One, <<2, 1>>}

PVPowers == {<<-1, 1>>, Zero, One, <<3, 1>>}

ResilienceConstruct ==
    /\ ~Live(1)
    /\ \E connection \in {"AC", "DC"}, start_index \in {0, 2} :
          DispatchNew(1, connection, start_index, <<10, 1>>)

ResilienceStepAC ==
    /\ IsDispatch(1) /\ obj[1].steps_run < MaxOutageSteps
    /\ \E load \in CritLoads, pv \in PVPowers : RunOutageStepAC(1, load, pv)

ResilienceStepDC ==
    /\ IsDispatch(1) /\ obj[1].steps_run < MaxOutageSteps
    /\ \E load \in CritLoads, pv \in PVPowers :
          RunOutageStepDC(1, load, pv, <<600, 1>>, Zero, <<20, 1>>)

NextResilience == ResilienceConstruct \/ ResilienceStepAC \/ ResilienceStepDC

SpecResilience == InitEmpty /\ [][NextResilience]_vars

OutageStepOps == {"run_outage_step_ac", "run_outage_step_dc"}

\* the last call was an outage step of the kind the dispatch is not connected for
Misused ==
    /\ ret.op \in OutageStepOps /\ IsDispatch(ret.o)
    /\ (ret.op = "run_outage_step_ac") # (obj[ret.o].connection = "AC")

\* C18: run_outage_step_ac on a DC-connected dispatch and run_outage_step_dc
\* on an AC-connected one raise an error and change nothing: the outage
\* index, the met loads and the battery power record stay, no dispatch step runs
C18_MisuseRaisesBeforeAnyChange ==
    [][Misused' => ret'.err # "" /\ obj' = obj /\ heap' = heap]_vars

\* a misused call on a dispatch that has stepped and met load before
C18_Witness ==
    /\ Misused /\ ret.err # ""
    /\ obj[ret.o].steps_run > 0
    /\ obj[ret.o].current_outage_index > obj[ret.o].start_outage_index
    /\ Gt(obj[ret.o].met_loads_kw, Zero)
    /\ Gt(obj[ret.o].batteryPower.powerCritLoad, Zero)

\* ------------------------------------------------------------------------
\* The scan of voltage_dynamic_t::calculate_max_discharge_w (Spec)
\* ------------------------------------------------------------------------
MaxDischarged == ret.op = "calculate_max_discharge_w" /\ IsDynamic(ret.o)

\* per string: the charge handed in and the current returned
ScanCharge == Div(ret.q, I2D(ParamsOf(ret.o).num_strings))

ScanCurrent == Div(ret.current, I2D(ParamsOf(ret.o).num_strings))

\* the model voltage of the last call at the per-string current I
ScanVoltage(I) ==
    LET p == ParamsOf(ret.o)
    IN  VoltageModelTremblayHybrid(p, obj[ret.o],
            Div(ret.qmax, I2D(p.num_strings)), I,
            Sub(ScanCharge, Mul(I, p.dt_hr)))

\* the k-th current of a scan that starts at `from` and rises by q/10
ScanPoint(from, k) == Add(from, Mul(I2D(k), Div(ScanCharge, <<10, 1>>)))

\* the power of the whole stack at the per-string current I
ScanPower(I) ==
    LET p == ParamsOf(ret.o)
    IN  Mul(Mul(Mul(I, ScanVoltage(I)), I2D(p.num_strings)), I2D(p.num_cells_series))

\* the scan from `from` reaches its k-th current: charge is left for it and
\* the voltage held at every current before it
ScanReaches(from, k) ==
    /\ Lt(Mul(ScanPoint(from, k), ParamsOf(ret.o).dt_hr), Sub(ScanCharge, tolerance))
    /\ \A j \in 0..(k - 1) :
          Ge(ScanVoltage(ScanPoint(from, j)), ParamsOf(ret.o).dynamic.Vcut)

\* the returned point is a point the scan from `from` reaches in `last` steps
\* at most, and no point it reaches with the voltage at Vcut or above has more
\* power; or nothing was found and 0 is returned
ReturnsBestOfScan(from, last) ==
    /\ \/ Eq(ret.value, Zero) /\ Eq(ScanCurrent, Zero)
       \/ \E k \in 0..last :
             /\ ScanReaches(from, k)
             /\ Eq(ScanCurrent, ScanPoint(from, k))
             /\ Eq(ret.value, ScanPower(ScanPoint(from, k)))
    /\ \A k \in 0..last :
          (ScanReaches(from, k)
             /\ Ge(ScanVoltage(ScanPoint(from, k)), ParamsOf(ret.o).dynamic.Vcut))
          => Le(ScanPower(ScanPoint(from, k)), ret.value)

\* C19 as amended: the scan starts at q/2 per string and rises by q/10 while
\* current * dt < q - tolerance and the voltage is at Vcut or above; the power
\* returned is >= 0, the current returned is 0 (nothing found) or the scanned
\* point of greatest power, with I * dt < q, and the voltage at it is >= Vcut
\* when the power is > 0
C19_ScanFromHalfCharge ==
    MaxDischarged =>
        /\ Ge(ret.value, Zero)
        /\ ReturnsBestOfScan(Mul(ScanCharge, <<1, 2>>), 5)
        /\ Eq(ScanCurrent, Zero)
              \/ Lt(Mul(ScanCurrent, ParamsOf(ret.o).dt_hr), ScanCharge)
        /\ Gt(ret.value, Zero) =>
              Ge(ScanVoltage(ScanCurrent), ParamsOf(ret.o).dynamic.Vcut)

\* a scan that went on past its first current and found its best point there
C19_Witness ==
    /\ MaxDischarged
    /\ Gt(ret.value, Zero)
    /\ Gt(ScanCurrent, Mul(ScanCharge, <<1, 2>>))

\* C19: the scan of calculate_max_discharge_w starts at 0 per string and rises
\* to q/2 in steps of q/10, stopping when the voltage falls below Vcut or
\* current * dt would exhaust q; it returns the scanned point of greatest
\* power: power >= 0, I * dt < q, and the voltage at I is >= Vcut when the
\* power is > 0
C19_ScanFromZeroToHalfCharge ==
    MaxDischarged =>
        /\ Ge(ret.value, Zero)
        /\ ReturnsBestOfScan(Zero, 5)
        /\ Le(ScanCurrent, Mul(ScanCharge, <<1, 2>>))
        /\ Lt(Mul(ScanCurrent, ParamsOf(ret.o).dt_hr), ScanCharge)
        /\ Gt(ret.value, Zero) =>
              Ge(ScanVoltage(ScanCurrent), ParamsOf(ret.o).dynamic.Vcut)

\* ------------------------------------------------------------------------
\* SpecTopology: dynamic and vanadium stacks of several strings and cells,
\* handed the charge and current of all their strings
\* ------------------------------------------------------------------------
\* strings in parallel a stack is built of
MaxStrings == 3

\* per string: charge and capacity, and the currents asked for
StringCharges == {<<One, <<9, 4>>>>, <<<<9, 4>>, <<9, 4>>>>, <<<<5, 1>>, <<10, 1>>>>}

StringCurrents == {Zero, One, <<-1, 1>>}

TopologyConstruct ==
    /\ ~Live(1)
    /\ \E cells \in {1, 2}, strings \in 1..MaxStrings :
          \/ DynamicNew(1, 1, cells, strings, <<18, 5>>, DynamicCell, <<1, 20>>, One)
          \/ VanadiumNew(1, 1, cells, strings, <<7, 5>>, <<1, 1000>>, One)

TopologyStep ==
    /\ Live(1)
    /\ \E c \in StringCharges, I \in StringCurrents, n \in {I2D(ParamsOf(1).num_strings)} :
          \/ DynamicUpdateVoltageCall(1, Mul(c[1], n), Mul(c[2], n), Mul(I, n))
          \/ VanadiumUpdateVoltageCall(1, Mul(c[1], n), Mul(c[2], n), Mul(I, n), Celsius)

TopologyQuery ==
    /\ Live(1)
    /\ \E c \in StringCharges, I \in StringCurrents, n \in {I2D(ParamsOf(1).num_strings)} :
          \/ DynamicCalculateVoltageForCurrentCall(1, Mul(I, n), Mul(c[1], n), Mul(c[2], n))
          \/ VanadiumCalculateVoltageForCurrentCall(1, Mul(I, n), Mul(c[1], n),
                                                    Mul(c[2], n), Kelvin)
          \/ DynamicCalculateMaxChargeWCall(1, Mul(c[1], n), Mul(c[2], n))
          \/ VanadiumCalculateMaxChargeWCall(1, Mul(c[1], n), Mul(c[2], n), Kelvin)

NextTopology == TopologyConstruct \/ TopologyStep \/ TopologyQuery

SpecTopology == InitEmpty /\ [][NextTopology]_vars

\* the model of the last call with one string, and with one string of one cell
OneString == [ParamsOf(ret.o) EXCEPT !.num_strings = 1]

OneCell == [OneString EXCEPT !.num_cells_series = 1]

\* the share of one string in what the last call was handed
PerString(x) == Div(x, I2D(ParamsOf(ret.o).num_strings))

\* updateVoltage and calculate_voltage_for_current of the last call give what
\* the one-string model gives for the share of one string
SameVoltageAsOneString ==
    LET m == obj[ret.o]
        q == PerString(ret.q)
        qmax == PerString(ret.qmax)
        I == PerString(ret.I)
    IN  /\ ret.op = "updateVoltage" /\ IsDynamic(ret.o) =>
              Eq(m.state.cell_voltage, DynamicUpdateVoltage(OneString, m, q, qmax, I))
        /\ ret.op = "updateVoltage" /\ IsVanadium(ret.o) =>
              Eq(m.state.cell_voltage,
                 VanadiumUpdateVoltage(OneString, m, q, qmax, I, ret.T))
        /\ ret.op = "calculate_voltage_for_current" /\ IsDynamic(ret.o) =>
              Eq(ret.value, DynamicCalculateVoltageForCurrent(OneString, m, I, q, qmax))
        /\ ret.op = "calculate_voltage_for_current" /\ IsVanadium(ret.o) =>
              Eq(ret.value,
                 VanadiumCalculateVoltageForCurrent(OneString, m, I, q, qmax, ret.T))

\* [power, current] of calculate_max_charge_w of the model with parameters p
\* for the share of one string
MaxChargeOf(p) ==
    IF IsDynamic(ret.o)
    THEN DynamicCalculateMaxChargeW(p, obj[ret.o], PerString(ret.q), PerString(ret.qmax))
    ELSE VanadiumCalculateMaxChargeW(p, obj[ret.o], PerString(ret.q),
                                     PerString(ret.qmax), ret.T)

\* calculate_max_charge_w gives n times the power and the current of one
\* string, and cells * n times the power of one string of one cell
MaxChargeScales ==
    ret.op = "calculate_max_charge_w" =>
        LET n == I2D(ParamsOf(ret.o).num_strings)
            cells == I2D(ParamsOf(ret.o).num_cells_series)
        IN  /\ Eq(ret.value, Mul(n, MaxChargeOf(OneString).power))
            /\ Eq(ret.current, Mul(n, MaxChargeOf(OneString).current))
            /\ Eq(ret.value, Mul(Mul(cells, n), MaxChargeOf(OneCell).power))

\* C20: a Dynamic or Vanadium model of n strings handed (n q, n qmax, n I)
\* computes in updateVoltage and calculate_voltage_for_current the voltage a
\* one-string model computes for (q, qmax, I); its calculate_max_charge_w
\* returns n times the power and current of one string, and the power is
\* linear in the cells in series
C20_TopologyConsistent ==
    Live(1) /\ ret.o = 1 => SameVoltageAsOneString /\ MaxChargeScales

\* a stack of three strings of two cells charged at a power that is not 0
C20_Witness ==
    /\ Live(1) /\ ret.op = "calculate_max_charge_w"
    /\ ParamsOf(1).num_strings = 3 /\ ParamsOf(1).num_cells_series = 2
    /\ Lt(ret.value, Zero) /\ Lt(ret.current, Zero)

\* ------------------------------------------------------------------------
\* The query calculate_voltage_for_current against the step updateVoltage
\* ------------------------------------------------------------------------
VoltageQueried == ret.op = "calculate_voltage_for_current" /\ Live(ret.o)

\* the cell_voltage updateVoltage would store in the queried model for the
\* charge state, current and temperature of the query; the table model is
\* stepped to the charge after the current has flowed for one timestep
StoredByUpdateVoltage ==
    IF IsTable(ret.o)
    THEN TableUpdateVoltage(ParamsOf(ret.o), obj[ret.o],
                            Sub(ret.q, Mul(ret.I, ParamsOf(ret.o).dt_hr)), ret.qmax)
    ELSE IF IsDynamic(ret.o)
    THEN DynamicUpdateVoltage(ParamsOf(ret.o), obj[ret.o], ret.q, ret.qmax, ret.I)
    ELSE VanadiumUpdateVoltage(ParamsOf(ret.o), obj[ret.o], ret.q, ret.qmax, ret.I,
                               Sub(ret.T, Kelvin0))

QueryAgreesWithStep ==
    ret.value = Mul(I2D(ParamsOf(ret.o).num_cells_series), StoredByUpdateVoltage)

\* C21: for every variant calculate_voltage_for_current(I, q, qmax, T) equals
\* cells_in_series times the cell_voltage updateVoltage stores for the same
\* charge state, current and temperature (table: for the charge q - I*dt)
C21_QueryAgreesWithStep == VoltageQueried => QueryAgreesWithStep

\* the same for the dynamic and the vanadium model alone
QueryAgreesWithStepOffTable ==
    VoltageQueried /\ ~IsTable(ret.o) => QueryAgreesWithStep

\* ------------------------------------------------------------------------
\* The survived steps and the met load of a resilience dispatch
\* ------------------------------------------------------------------------
\* the last call ran an outage step to its end
OutageStepRan == ret.op \in OutageStepOps /\ ret.err = "" /\ IsDispatch(ret.o)

\* the met load a step left in the battery power record bp
MetLoadOf(bp) ==
    Add(Add(bp.powerBatteryToLoad, bp.powerSystemToLoad), bp.powerFuelCellToLoad)

LastMetLoad == MetLoadOf(obj[ret.o].batteryPower)

SurvivedCountsTrueCalls ==
    \A o \in Objs : Live(o) /\ IsDispatch(o) =>
        GetIndicesSurvived(o) = obj[o].steps_survived

\* what one finished step does to the dispatch it ran on
StepCountsAndAccumulates ==
    OutageStepRan' =>
        /\ ret'.survived = Lt(obj'[ret'.o].batteryPower.powerCritLoadUnmet, tolerance)
        /\ obj'[ret'.o].current_outage_index =
              obj[ret'.o].current_outage_index + (IF ret'.survived THEN 1 ELSE 0)
        /\ \E bp \in {obj'[ret'.o].batteryPower}, before \in {obj[ret'.o].met_loads_kw} :
              obj'[ret'.o].met_loads_kw = Add(before, MetLoadOf(bp))

\* C22: get_indices_survived() is the number of outage steps that returned
\* true: a step with unmet critical load below tolerance moves
\* current_outage_index on by exactly 1, a failed step leaves it, and
\* met_loads_kw grows by the met load of every step, failed ones included
C22_SurvivedStepsCounted ==
    [] SurvivedCountsTrueCalls /\ [][StepCountsAndAccumulates]_vars

\* a dispatch that survived a step and then failed one that still met load
C22_Witness ==
    /\ OutageStepRan /\ ~ret.survived
    /\ Gt(LastMetLoad, Zero)
    /\ obj[ret.o].steps_survived >= 1
    /\ obj[ret.o].steps_survived < obj[ret.o].steps_run
    /\ GetIndicesSurvived(ret.o) = obj[ret.o].steps_survived
    /\ Gt(GetMetLoads(ret.o), LastMetLoad)

\* ------------------------------------------------------------------------
\* resilience_runner (lib_resilience.cpp): the batteries of the outages still
\* running, by the index their outage started at, kept among the instances
\* ------------------------------------------------------------------------
\* hours of a year: stands for the 8760 of the source
HoursPerYear == 2

IsRunner(o) == obj[o].kind = "runner"

\* battstor as the runner reads it; a year has step_per_hour steps an hour
Battstor(step_per_hour, nyears, batt_topology, inverter_paco, inverter_count) ==
    [step_per_hour |-> step_per_hour, step_per_year |-> step_per_hour * HoursPerYear,
     nyears |-> nyears, batt_topology |-> batt_topology,
     inverter_paco |-> inverter_paco, inverter_count |-> inverter_count]

\* the empty std::map
NoBatteries == [k \in {} |-> NoObj]

\* resilience_runner(battery): the members after construction, and `calls`,
\* the calls made on the runner since
ResilienceRunner(batt) ==
    LET steps_lifetime == batt.step_per_hour * batt.nyears * HoursPerYear
    IN  [kind |-> "runner", batt |-> batt,
         battery_per_outage_start |-> NoBatteries,
         indices_survived |-> [i \in 0..(steps_lifetime - 1) |-> 0],
         total_load_met |-> [i \in 0..(steps_lifetime - 1) |-> Zero],
         logs |-> <<>>, calls |-> 0]

\* the last call on a runner: the index given, the batteries stepped with what
\* their step returned, the keys left when the loop ended, the iterations run
RunnerCall(op, o, index, stepped, remaining, iterations) ==
    [index |-> index, stepped |-> stepped, remaining |-> remaining,
     iterations |-> iterations] @@ Call(op, o)

RunnerNew(o, batt) ==
    /\ ~Live(o)
    /\ obj' = [obj EXCEPT ![o] = ResilienceRunner(batt)]
    /\ ret' = RunnerCall("resilience_runner", o, 0, NoBatteries, {}, 0)
    /\ UNCHANGED heap

\* resilience_runner::get_n_surviving_batteries()
GetNSurvivingBatteries(R) == Cardinality(DOMAIN R.battery_per_outage_start)

\* resilience_runner::add_battery_at_outage_timestep(orig, index) on the
\* runner R: std::map::insert leaves the map as it is when the key is there
AddBatteryAtOutageTimestep(R, connection, min_outage_soc, index) ==
    [R EXCEPT
       !.logs = IF index \in DOMAIN R.battery_per_outage_start
                THEN Append(@, "Replacing battery which already existed at index "
                               \o ToString(index) \o ".")
                ELSE @,
       !.battery_per_outage_start =
           IF index \in DOMAIN @ THEN @
           ELSE (index :> DispatchResilience(connection, index, min_outage_soc)) @@ @]

AddBatteryAtOutageTimestepCall(o, connection, min_outage_soc, index) ==
    /\ IsRunner(o)
    /\ obj' = [obj EXCEPT ![o] =
                  [AddBatteryAtOutageTimestep(obj[o], connection, min_outage_soc, index)
                      EXCEPT !.calls = @ + 1]]
    /\ ret' = RunnerCall("add_battery_at_outage_timestep", o, index, NoBatteries, {}, 0)
    /\ UNCHANGED heap

\* lines 146-149: the step of one battery by its connection, with every
\* outcome of the dispatch step
BatteryStepOutcomes(d, crit_loads_kwac, pv_kwac, pv_kwdc, V, pv_clipped_kw, tdry_c) ==
    {OutageStepEnd(d, bp) : bp \in DispatchOutcomes(
        IF d.connection = "DC"
        THEN OutageInputsDC(d.batteryPower, crit_loads_kwac, pv_kwdc, V,
                            pv_clipped_kw, tdry_c)
        ELSE OutageInputsAC(d.batteryPower, crit_loads_kwac, pv_kwac))}

\* lines 142-154: one step of every battery of the map m
StepChoices(m, crit_loads_kwac, pv_kwac, pv_kwdc, V, pv_clipped_kw, tdry_c) ==
    LET out == [k \in DOMAIN m |->
                   BatteryStepOutcomes(m[k], crit_loads_kwac, pv_kwac, pv_kwdc, V,
                                       pv_clipped_kw, tdry_c)]
    IN  {f \in [DOMAIN m -> UNION {out[k] : k \in DOMAIN m}] :
            \A k \in DOMAIN m : f[k] \in out[k]}

\* run_surviving_batteries keeping the depleted batteries in the map
RunSurvivingBatteriesKeeping(R, crit_loads_kwac, stepped) ==
    LET depleted == {k \in DOMAIN stepped : ~stepped[k].survived}
    IN  [R EXCEPT
           !.indices_survived = [i \in DOMAIN @ |->
               IF i \in depleted
               THEN stepped[i].d.current_outage_index - stepped[i].d.start_outage_index
               ELSE @[i]],
           !.total_load_met = [i \in DOMAIN @ |->
               IF i \in depleted THEN stepped[i].d.met_loads_kw ELSE @[i]],
           !.battery_per_outage_start = [k \in DOMAIN stepped |-> stepped[k].d]]

\* resilience_runner::run_surviving_batteries on the runner R, the batteries
\* having stepped as in `stepped`: the log of the DC inverter limit, then the
\* bookkeeping of the depleted batteries (lines 150-160; the keys are
\* distinct, so the two loops write each entry once)
RunSurvivingBatteries(R, crit_loads_kwac, stepped) ==
    LET depleted == {k \in DOMAIN stepped : ~stepped[k].survived}
    IN  [R EXCEPT
           !.logs = IF /\ R.batt.batt_topology = "DC"
                       /\ Lt(Mul(R.batt.inverter_paco, I2D(R.batt.inverter_count)),
                             crit_loads_kwac)
                    THEN Append(@, "For DC-connected battery, maximum inverter AC Power less than max load will lead to dropped load.")
                    ELSE @,
           !.indices_survived = [i \in DOMAIN @ |->
               IF i \in depleted
               THEN stepped[i].d.current_outage_index - stepped[i].d.start_outage_index
               ELSE @[i]],
           !.total_load_met = [i \in DOMAIN @ |->
               IF i \in depleted THEN stepped[i].d.met_loads_kw ELSE @[i]],
           !.battery_per_outage_start =
               [k \in DOMAIN stepped \ depleted |-> stepped[k].d]]

RunSurvivingBatteriesCall(o, crit_loads_kwac, pv_kwac, pv_kwdc, V, pv_clipped_kw, tdry_c) ==
    /\ IsRunner(o)
    /\ \E stepped \in StepChoices(obj[o].battery_per_outage_start, crit_loads_kwac,
                                  pv_kwac, pv_kwdc, V, pv_clipped_kw, tdry_c) :
          /\ obj' = [obj EXCEPT ![o] =
                        [RunSurvivingBatteries(obj[o], crit_loads_kwac, stepped)
                            EXCEPT !.calls = @ + 1]]
          /\ ret' = RunnerCall("run_surviving_batteries", o, 0, stepped, {}, 0)
    /\ UNCHANGED heap

\* the lifetime arrays of a DC-connected system, or the null pointers
NoDCArrays == [given |-> FALSE, pv_kwdc |-> <<>>, V |-> <<>>,
               pv_clipped_kw |-> <<>>, tdry_c |-> <<>>]

\* lines 169-175: the states the while loop can end in, from iteration i on.
\* Without the DC arrays run_surviving_batteries runs with pv_kwdc, V,
\* pv_clipped_kw and tdry_c of 0.
RECURSIVE LoopOutcomes(_, _, _, _, _)
LoopOutcomes(R, i, crit_loads_kwac, pv_kwac, dc) ==
    LET nrec == R.batt.step_per_year
        steps_lifetime == nrec * R.batt.nyears
        crit == crit_loads_kwac[(i % nrec) + 1]
    IN  IF GetNSurvivingBatteries(R) > 0 /\ i < steps_lifetime
        THEN UNION {LoopOutcomes(RunSurvivingBatteries(R, crit, stepped), i + 1,
                                 crit_loads_kwac, pv_kwac, dc) :
                       stepped \in
                           IF dc.given
                           THEN StepChoices(R.battery_per_outage_start, crit,
                                            pv_kwac[i + 1], dc.pv_kwdc[i + 1], dc.V[i + 1],
                                            dc.pv_clipped_kw[i + 1],
                                            dc.tdry_c[(i % nrec) + 1])
                           ELSE StepChoices(R.battery_per_outage_start, crit,
                                            pv_kwac[i + 1], Zero, Zero, Zero, Zero)}
        ELSE {[R |-> R, i |-> i]}

\* std::accumulate(a, a + n, 0.0)
RECURSIVE Accumulate(_, _)
Accumulate(a, n) == IF n = 0 THEN Zero ELSE Add(Accumulate(a, n - 1), a[n])

\* lines 177-185: the batteries left after the loop are given the whole
\* lifetime and the map is cleared
LoopEnd(R, crit_loads_kwac) ==
    LET nrec == R.batt.step_per_year
        steps_lifetime == nrec * R.batt.nyears
        total_load == Mul(Accumulate(crit_loads_kwac, nrec), I2D(R.batt.nyears))
        left == DOMAIN R.battery_per_outage_start
    IN  IF left = {} THEN R
        ELSE [R EXCEPT
                !.indices_survived =
                    [k \in DOMAIN @ |-> IF k \in left THEN steps_lifetime ELSE @[k]],
                !.total_load_met =
                    [k \in DOMAIN @ |-> IF k \in left THEN total_load ELSE @[k]],
                !.battery_per_outage_start = NoBatteries]

\* resilience_runner::run_surviving_batteries_by_looping(crit_loads_kwac,
\* pv_kwac, pv_kwdc, V, pv_clipped_kw, tdry_c)
RunSurvivingBatteriesByLoopingCall(o, crit_loads_kwac, pv_kwac, dc) ==
    /\ IsRunner(o)
    /\ \E x \in LoopOutcomes(obj[o], 0, crit_loads_kwac, pv_kwac, dc) :
          /\ obj' = [obj EXCEPT ![o] =
                        [LoopEnd(x.R, crit_loads_kwac) EXCEPT !.calls = @ + 1]]
          /\ ret' = [crit_loads_kwac |-> crit_loads_kwac] @@
                     RunnerCall("run_surviving_batteries_by_looping", o, 0, NoBatteries,
                                DOMAIN x.R.battery_per_outage_start, x.i)
    /\ UNCHANGED heap

\* ------------------------------------------------------------------------
\* SpecRunner: one runner; batteries are added at outage starts, stepped
\* together, and run to the end of the lifetime
\* ------------------------------------------------------------------------
\* calls made on a runner in a run
MaxRunnerCalls == 5

\* the AC power of the inverters of a DC-connected system
InverterPaco == <<3, 2>>

RunnerLoads == {<<2, 1>>}

RunnerPV == {Zero, <<2, 1>>}

\* the outage starts a battery is added at
StartIndices == {0, 1}

\* the steps of the lifetime of the runner o
StepsLifetime(o) == obj[o].batt.step_per_year * obj[o].batt.nyears

RunnerConstruct ==
    /\ ~Live(1)
    /\ \E nyears \in {1, 2}, system \in {<<"AC", 1>>, <<"DC", 1>>, <<"DC", 2>>} :
          RunnerNew(1, Battstor(1, nyears, system[1], InverterPaco, system[2]))

\* the dispatch copied is the one of the system: it has the runner's topology
RunnerAdd ==
    /\ IsRunner(1) /\ obj[1].calls < MaxRunnerCalls
    /\ \E index \in StartIndices :
          AddBatteryAtOutageTimestepCall(1, obj[1].batt.batt_topology, <<10, 1>>, index)

RunnerStep ==
    /\ IsRunner(1) /\ obj[1].calls < MaxRunnerCalls
    /\ \E load \in RunnerLoads, pv \in RunnerPV :
          RunSurvivingBatteriesCall(1, load, pv, pv, <<600, 1>>, Zero, <<20, 1>>)

RunnerLoop ==
    /\ IsRunner(1) /\ obj[1].calls < MaxRunnerCalls
    /\ \E load \in RunnerLoads, pv \in RunnerPV :
          \E crit_loads_kwac \in {[i \in 1..obj[1].batt.step_per_year |-> load]},
             pv_kwac \in {[i \in 1..StepsLifetime(1) |-> pv]} :
             RunSurvivingBatteriesByLoopingCall(1, crit_loads_kwac, pv_kwac, NoDCArrays)

NextRunner == RunnerConstruct \/ RunnerAdd \/ RunnerStep \/ RunnerLoop

SpecRunner == InitEmpty /\ [][NextRunner]_vars

\* ------------------------------------------------------------------------
\* One call of run_surviving_batteries (SpecRunner)
\* ------------------------------------------------------------------------
RunnerStepped == ret.op = "run_surviving_batteries" /\ IsRunner(ret.o)

\* the runner `before` the call, `after` it, and what each battery's step left
SteppedOnceAndBooked(before, after, stepped) ==
    LET m == before.battery_per_outage_start
        depleted == {k \in DOMAIN m : ~stepped[k].survived}
    IN  /\ DOMAIN stepped = DOMAIN m
        /\ \A k \in DOMAIN m :
              /\ stepped[k].d.steps_run = m[k].steps_run + 1
              /\ stepped[k].d.start_outage_index = k
        /\ DOMAIN after.battery_per_outage_start = DOMAIN m \ depleted
        /\ \A k \in DOMAIN m \ depleted :
              after.battery_per_outage_start[k] = stepped[k].d
        /\ \A i \in DOMAIN before.indices_survived :
              IF i \in depleted
              THEN /\ after.indices_survived[i] = stepped[i].d.steps_survived
                   /\ after.total_load_met[i] = stepped[i].d.met_loads_kw
              ELSE /\ after.indices_survived[i] = before.indices_survived[i]
                   /\ after.total_load_met[i] = before.total_load_met[i]

\* C23: a call of run_surviving_batteries steps every battery of the map
\* exactly once; a battery stays in the map iff its step survived; for each
\* battery removed indices_survived[start] and total_load_met[start] hold its
\* survived-step count and its accumulated met load; the entries of the other
\* start indices are unchanged
C23_EveryBatterySteppedOnce ==
    [][RunnerStepped' =>
          \E before \in {obj[ret'.o]}, after \in {obj'[ret'.o]},
             stepped \in {ret'.stepped} :
             SteppedOnceAndBooked(before, after, stepped)]_vars

\* a call in which one battery that had survived and met load before was
\* depleted and removed while another survived and stayed
C23_Witness ==
    /\ RunnerStepped
    /\ \E k \in DOMAIN ret.stepped, j \in DOMAIN obj[ret.o].battery_per_outage_start :
          /\ ~ret.stepped[k].survived
          /\ ret.stepped[k].d.steps_survived >= 1
          /\ Gt(ret.stepped[k].d.met_loads_kw, Zero)
          /\ obj[ret.o].indices_survived[k] = ret.stepped[k].d.steps_survived
          /\ k \notin DOMAIN obj[ret.o].battery_per_outage_start
          /\ ret.stepped[j].survived

\* ------------------------------------------------------------------------
\* run_surviving_batteries_by_looping (SpecRunner)
\* ------------------------------------------------------------------------
LoopReturned == ret.op = "run_surviving_batteries_by_looping" /\ IsRunner(ret.o)

\* the loop ran at most steps_lifetime times and left no battery
LoopBoundedAndMapEmpty(after, iterations) ==
    /\ iterations <= after.batt.step_per_year * after.batt.nyears
    /\ after.battery_per_outage_start = NoBatteries

\* the batteries left when the loop ended are given the whole lifetime
NeverFailedGetLifetime(after, remaining, crit_loads_kwac) ==
    \A k \in remaining :
        /\ after.indices_survived[k] = after.batt.step_per_year * after.batt.nyears
        /\ after.total_load_met[k] =
              Mul(Accumulate(crit_loads_kwac, after.batt.step_per_year),
                  I2D(after.batt.nyears))

\* the batteries that failed a step of the loop are given less
FailedGetLess(before, after, remaining) ==
    \A k \in DOMAIN before.battery_per_outage_start \ remaining :
        after.indices_survived[k] < after.batt.step_per_year * after.batt.nyears

\* C24: run_surviving_batteries_by_looping ends after at most steps_lifetime
\* = step_per_year * nyears iterations with no battery left in the map; a
\* battery that never failed a step gets indices_survived = steps_lifetime
\* and total_load_met = nyears times the sum of the critical loads, a battery
\* that failed gets indices_survived < steps_lifetime
C24_LoopEndsAndBooksLifetime ==
    [][LoopReturned' =>
          \E before \in {obj[ret'.o]}, after \in {obj'[ret'.o]}, last \in {ret'} :
             /\ LoopBoundedAndMapEmpty(after, last.iterations)
             /\ NeverFailedGetLifetime(after, last.remaining, last.crit_loads_kwac)
             /\ FailedGetLess(before, after, last.remaining)]_vars

\* the same without the bound on the batteries that failed
LoopEndsAndNeverFailedGetLifetime ==
    [][LoopReturned' =>
          \E after \in {obj'[ret'.o]}, last \in {ret'} :
             /\ LoopBoundedAndMapEmpty(after, last.iterations)
             /\ NeverFailedGetLifetime(after, last.remaining, last.crit_loads_kwac)]_vars

\* a battery that failed in a loop it entered without a step behind it
FreshFailedGetLess ==
    [][LoopReturned' =>
          \E before \in {obj[ret'.o]}, after \in {obj'[ret'.o]}, last \in {ret'} :
             \A k \in DOMAIN before.battery_per_outage_start \ last.remaining :
                 before.battery_per_outage_start[k].steps_run = 0 =>
                    after.indices_survived[k] <
                        after.batt.step_per_year * after.batt.nyears]_vars

\* ------------------------------------------------------------------------
\* add_battery_at_outage_timestep at an index that has a battery (SpecRunner)
\* ------------------------------------------------------------------------
BatteryAdded == ret.op = "add_battery_at_outage_timestep" /\ IsRunner(ret.o)

\* the battery at the index is as its constructor leaves it
FreshAt(R, index) ==
    /\ index \in DOMAIN R.battery_per_outage_start
    /\ \E d \in {R.battery_per_outage_start[index]} :
          /\ d.start_outage_index = index
          /\ d.current_outage_index - d.start_outage_index = 0
          /\ d.met_loads_kw = Zero

ReplacementLogged(before, after, index) ==
    after.logs = Append(before.logs,
                        "Replacing battery which already existed at index "
                            \o ToString(index) \o ".")

\* C25: add_battery_at_outage_timestep for an index that already has a
\* battery replaces it: afterwards the map holds for that index a fresh
\* dispatch with zero survived steps and zero met load, and the replacement
\* is logged
C25_AddReplacesExisting ==
    [][BatteryAdded' =>
          \E before \in {obj[ret'.o]}, after \in {obj'[ret'.o]}, index \in {ret'.index} :
             index \in DOMAIN before.battery_per_outage_start =>
                 FreshAt(after, index) /\ ReplacementLogged(before, after, index)]_vars

\* what the call does at such an index: the log line, and the battery that
\* was there stays
AddKeepsExisting ==
    [][BatteryAdded' =>
          \E before \in {obj[ret'.o]}, after \in {obj'[ret'.o]}, index \in {ret'.index} :
             index \in DOMAIN before.battery_per_outage_start =>
                 /\ ReplacementLogged(before, after, index)
                 /\ after.battery_per_outage_start = before.battery_per_outage_start]_vars

=============================================================================
